---- MODULE Spec2Model ----
(***************************************************************************)
(* Collaborative code editor (yeheyan/collaborative-code-editor).           *)
(*                                                                          *)
(* The module models                                                        *)
(*   - pkg/ot/operation.go: the operation algebra (Transform, Apply,        *)
(*     GenerateOperation, TransformAgainstHistory);                         *)
(*   - internal/editor/ot_manager.go: OTManager.ProcessTextUpdate;          *)
(*   - internal/editor/service.go, hub.go, client.go, cursor.go: the        *)
(*     service, the hub loop, the per-connection reader and writer.         *)
(*                                                                          *)
(* Strings are sequences of one-character strings; Go's s[i:j] is           *)
(* SubSeq(s, i+1, j).  The specifications share the variables:              *)
(*   SpecOT      - Transform/Apply on inputs drawn by Init;                 *)
(*   SpecEngine  - one OTManager driven by arbitrary ProcessTextUpdate      *)
(*                 calls;                                                   *)
(*   Spec        - the service from construction: connections shake hands,  *)
(*                 readers, writers and the hub loop run;                   *)
(*   SpecSession - the service from the state in which every client is      *)
(*                 attached to the document and the handshake frames have   *)
(*                 been written out.                                        *)
(*   SpecDetach    - SpecSession with departures: a browser goes away and   *)
(*                   the hub runs handleUnregister;                         *)
(*   SpecIsolation - the same with clients attached to two documents;       *)
(*   SpecApply     - Document.Apply on operations drawn by Init;            *)
(*   SpecDiff      - GenerateOperation followed by Apply;                   *)
(*   SpecGetDoc    - concurrent calls of Service.GetDocument, step by step; *)
(*   SpecMirror    - Transform(a, b) and Transform(b, a) on the same pair;  *)
(*   SpecPresence  - cursor and selection messages in a session;            *)
(*   SpecSave      - a session with a store behind it and the auto-save     *)
(*                   loop, the store refusing updates at will;              *)
(*   SpecShutdown  - a session with a store and a call of Shutdown;         *)
(*   SpecFlush     - a session with a store and departures;                 *)
(*   SpecProtocol  - SpecDetach with malformed and unknown frames;          *)
(*   SpecStall     - departures and request_document under fair             *)
(*                   scheduling of the server's goroutines;                 *)
(*   SpecQuiet     - a session of two clients, with ping frames;            *)
(*   SpecClosed    - SpecStall without fairness, with malformed frames,     *)
(*                   save_document and the hub's shutdown;                  *)
(*   SpecLoaded    - a session on a document loaded from the store;         *)
(*   SpecActive    - connects and disconnects against the                   *)
(*                   documents_active counter.                              *)
(*                                                                          *)
(* The persistence store is outside the repository's editor package: db     *)
(* holds, per document, what the calls CreateDocument and UpdateDocument    *)
(* made by service.go have put there.                                       *)
(***************************************************************************)
EXTENDS Integers, Sequences, FiniteSets, TLC

\* ---------------------------------------------------------------- bounds

\* Longest content a client submits.
MaxLen == 2

\* Number of ProcessTextUpdate calls in a run.
MaxUpdates == 2

\* Longest base content the operation algebra is exercised on.
MaxBase == 3

\* Number of messages the clients send in a run that starts with every
\* client attached.
MaxMsgs == 2

\* Number of messages the clients send in a run that starts with nobody
\* connected.
MaxJoinMsgs == 1

\* Number of connections HandleWebSocket accepts in a run of the service.
MaxConns == 2

\* Number of messages the clients send in a run with a departure.
MaxDetachMsgs == 1

\* Capacity of a client's outbound queue in the runs with departures: room
\* for the three frames one departure sends to a peer.
DetachCap == 3

\* Version of the document the store hands to GetDocument in the runs that
\* start from a stored document.
LoadedVersion == 3

\* Capacity of a client's outbound queue (make(chan []byte, 256) in the code).
SendCap == 1

\* Capacity of Hub.broadcast.
BroadcastCap == 256

\* ------------------------------------------------------------ vocabulary

Chars == {"a", "b"}

\* Client identifiers (Client.id, uuid prefixes in the code).
Clients == {"a1", "b9", "c5"}

\* Document identifiers (the doc query parameter).
Docs == {"d1", "d2"}

\* The documents in the order in which the attached sessions created them.
DocOrder == <<"d1", "d2">>

\* Go compares ClientID strings bytewise; "" is the zero value a Retain carries.
IdRank(id) ==
  CASE id = ""   -> 0
    [] id = "a1" -> 1
    [] id = "b9" -> 2
    [] id = "c5" -> 3

IdLess(x, y) == IdRank(x) < IdRank(y)

GoStrings(n) == UNION {[1..k -> Chars] : k \in 0..n}

\* s[i:j] and s[i:] of Go, for indices the caller has kept in range.
Slice(s, i, j) == SubSeq(s, i + 1, j)

SliceFrom(s, i) == SubSeq(s, i + 1, Len(s))

\* ------------------------------------------------- pkg/ot/operation.go

OpInsert == "OpInsert"

OpDelete == "OpDelete"

OpRetain == "OpRetain"

\* Operation struct; every field is present, absent ones hold Go's zero value.
Operation(t, pos, content, length, clientID, version) ==
  [Type |-> t, Position |-> pos, Content |-> content, Length |-> length,
   ClientID |-> clientID, Version |-> version]

NewDocument ==
  [Content |-> <<>>, Version |-> 0, PendingOps |-> <<>>, AcknowledgedOps |-> <<>>]

\* transformInsertInsert with the tie at equal positions always resolved
\* against op1.
transformInsertInsertNoTie(op1, op2) ==
  IF op1.Position < op2.Position
    THEN <<op1, [op2 EXCEPT !.Position = @ + Len(op1.Content)]>>
  ELSE <<[op1 EXCEPT !.Position = @ + Len(op2.Content)], op2>>

transformInsertInsert(op1, op2) ==
  IF op1.Position < op2.Position
    THEN <<op1, [op2 EXCEPT !.Position = @ + Len(op1.Content)]>>
  ELSE IF op1.Position > op2.Position
    THEN <<[op1 EXCEPT !.Position = @ + Len(op2.Content)], op2>>
  ELSE IF IdLess(op1.ClientID, op2.ClientID)
    THEN <<op1, [op2 EXCEPT !.Position = @ + Len(op1.Content)]>>
  ELSE <<[op1 EXCEPT !.Position = @ + Len(op2.Content)], op2>>

\* Returns <<insertPrime, deletePrime>>.
transformInsertDelete(insert, delete) ==
  IF insert.Position <= delete.Position
    THEN <<insert, [delete EXCEPT !.Position = @ + Len(insert.Content)]>>
  ELSE IF insert.Position >= delete.Position + delete.Length
    THEN <<[insert EXCEPT !.Position = @ - delete.Length], delete>>
  ELSE <<[insert EXCEPT !.Position = delete.Position], delete>>

transformDeleteDelete(op1, op2) ==
  IF op1.Position + op1.Length <= op2.Position
    THEN <<op1, [op2 EXCEPT !.Position = @ - op1.Length]>>
  ELSE IF op2.Position + op2.Length <= op1.Position
    THEN <<[op1 EXCEPT !.Position = @ - op2.Length], op2>>
  ELSE IF op1.Position < op2.Position
    THEN LET overlap == (op1.Position + op1.Length) - op2.Position
         IN <<[op1 EXCEPT !.Length = @ - overlap],
              [op2 EXCEPT !.Position = op1.Position, !.Length = @ - overlap]>>
  ELSE LET overlap == (op2.Position + op2.Length) - op1.Position
       IN <<[op1 EXCEPT !.Position = op2.Position, !.Length = @ - overlap],
            [op2 EXCEPT !.Length = @ - overlap]>>

\* Transform(op1, op2) = <<op1Prime, op2Prime>>; a Retain on either side
\* matches no case of the switch and both come back unchanged.
Transform(op1, op2) ==
  IF op1.Type = OpInsert /\ op2.Type = OpInsert
    THEN transformInsertInsert(op1, op2)
  ELSE IF op1.Type = OpInsert /\ op2.Type = OpDelete
    THEN transformInsertDelete(op1, op2)
  ELSE IF op1.Type = OpDelete /\ op2.Type = OpInsert
    THEN LET r == transformInsertDelete(op2, op1) IN <<r[2], r[1]>>
  ELSE IF op1.Type = OpDelete /\ op2.Type = OpDelete
    THEN transformDeleteDelete(op1, op2)
  ELSE <<op1, op2>>

\* Apply with the Insert splice written without the prefix before Position.
ApplyInsertDropsPrefix(d, op) ==
  LET n == Len(d.Content)
      done(c) == [err |-> "nil",
                  doc |-> [d EXCEPT !.Content = c,
                                    !.Version = @ + 1,
                                    !.AcknowledgedOps = Append(@, op)]]
  IN CASE op.Type = OpInsert ->
            IF op.Position < 0 \/ op.Position > n
              THEN [err |-> "error", doc |-> d]
              ELSE done(op.Content \o SliceFrom(d.Content, op.Position))
       [] op.Type = OpDelete ->
            IF op.Position < 0 \/ op.Position + op.Length > n
              THEN [err |-> "error", doc |-> d]
            ELSE IF op.Position > n \/ op.Position + op.Length < 0
              THEN [err |-> "panic", doc |-> d]
            ELSE done(Slice(d.Content, 0, op.Position)
                      \o SliceFrom(d.Content, op.Position + op.Length))
       [] OTHER -> done(d.Content)

\* Document.Apply.  err is "nil", "error" (the returned error; the document
\* is left as it was) or "panic" (a slice expression out of range, which the
\* range test lets through when Length is negative).
Apply(d, op) ==
  LET n == Len(d.Content)
      done(c) == [err |-> "nil",
                  doc |-> [d EXCEPT !.Content = c,
                                    !.Version = @ + 1,
                                    !.AcknowledgedOps = Append(@, op)]]
  IN CASE op.Type = OpInsert ->
            IF op.Position < 0 \/ op.Position > n
              THEN [err |-> "error", doc |-> d]
              ELSE done(Slice(d.Content, 0, op.Position) \o op.Content
                        \o SliceFrom(d.Content, op.Position))
       [] op.Type = OpDelete ->
            IF op.Position < 0 \/ op.Position + op.Length > n
              THEN [err |-> "error", doc |-> d]
            ELSE IF op.Position > n \/ op.Position + op.Length < 0
              THEN [err |-> "panic", doc |-> d]
            ELSE done(Slice(d.Content, 0, op.Position)
                      \o SliceFrom(d.Content, op.Position + op.Length))
       [] OTHER -> done(d.Content)

\* Document.TransformAgainstHistory: the loop runs over PendingOps.
TransformAgainstHistory(d, op) ==
  LET F[i \in 0..Len(d.PendingOps)] ==
        IF i = 0 THEN op
        ELSE IF d.PendingOps[i].ClientID # op.ClientID
          THEN Transform(F[i - 1], d.PendingOps[i])[1]
          ELSE F[i - 1]
  IN F[Len(d.PendingOps)]

\* Index (0-based) of the first byte where old and new differ among the
\* first n bytes, or n when they agree there.
FirstDiff(oldContent, newContent, n) ==
  LET D == {i \in 0..(n - 1) : oldContent[i + 1] # newContent[i + 1]}
  IN IF D = {} THEN n ELSE CHOOSE i \in D : \A j \in D : i <= j

\* GenerateOperation taking the inserted text from the end of newContent.
GenerateOperationTail(oldContent, newContent, clientID) ==
  LET oldLen == Len(oldContent)
      newLen == Len(newContent)
  IN IF newLen > oldLen
       THEN LET i == FirstDiff(oldContent, newContent, oldLen)
            IN Operation(OpInsert, i, SliceFrom(newContent, oldLen),
                         0, clientID, 0)
     ELSE IF oldLen > newLen
       THEN LET i == FirstDiff(oldContent, newContent, newLen)
            IN Operation(OpDelete, i, <<>>, oldLen - newLen, clientID, 0)
     ELSE Operation(OpRetain, 0, <<>>, 0, "", 0)

\* GenerateOperation(oldContent, newContent, position, clientID); position is
\* not used by the code.  The Retain is the literal Operation{Type: OpRetain}:
\* its ClientID is empty.
GenerateOperation(oldContent, newContent, clientID) ==
  LET oldLen == Len(oldContent)
      newLen == Len(newContent)
  IN IF newLen > oldLen
       THEN LET i == FirstDiff(oldContent, newContent, oldLen)
            IN Operation(OpInsert, i, Slice(newContent, i, i + (newLen - oldLen)),
                         0, clientID, 0)
     ELSE IF oldLen > newLen
       THEN LET i == FirstDiff(oldContent, newContent, newLen)
            IN Operation(OpDelete, i, <<>>, oldLen - newLen, clientID, 0)
     ELSE Operation(OpRetain, 0, <<>>, 0, "", 0)

\* ------------------------------------- internal/editor/ot_manager.go

NewOTManager == [document |-> NewDocument, lastContent |-> <<>>]

\* OTManager.ProcessTextUpdate without `m.lastContent = m.document.Content`.
ProcessTextUpdateStaleLast(m, clientID, newContent, clientVersion) ==
  LET op0     == GenerateOperation(m.lastContent, newContent, clientID)
      op      == [op0 EXCEPT !.Version = clientVersion]
      applied == IF clientVersion < m.document.Version
                   THEN TransformAgainstHistory(m.document, op)
                   ELSE op
      r       == Apply(m.document, applied)
  IN IF r.err = "nil"
       THEN [m |-> [document |-> r.doc, lastContent |-> m.lastContent],
             content |-> r.doc.Content, version |-> r.doc.Version,
             err |-> "nil", op |-> op, applied |-> applied]
       ELSE [m |-> m,
             content |-> m.document.Content, version |-> m.document.Version,
             err |-> r.err, op |-> op, applied |-> applied]

\* OTManager.ProcessTextUpdate on manager m.  The result carries the manager
\* afterwards, the returned (content, version, err), and the operation as
\* derived (op) and as handed to Apply (applied).
ProcessTextUpdate(m, clientID, newContent, clientVersion) ==
  LET op0     == GenerateOperation(m.lastContent, newContent, clientID)
      op      == [op0 EXCEPT !.Version = clientVersion]
      applied == IF clientVersion < m.document.Version
                   THEN TransformAgainstHistory(m.document, op)
                   ELSE op
      r       == Apply(m.document, applied)
  IN IF r.err = "nil"
       THEN [m |-> [document |-> r.doc, lastContent |-> r.doc.Content],
             content |-> r.doc.Content, version |-> r.doc.Version,
             err |-> "nil", op |-> op, applied |-> applied]
       ELSE [m |-> m,
             content |-> m.document.Content, version |-> m.document.Version,
             err |-> r.err, op |-> op, applied |-> applied]

\* ------------------------------------------------------------- variables

VARIABLES
  tS,     \* SpecOT: the base content
  tA,     \* SpecOT: operation a
  tB,     \* SpecOT: operation b
  tOut,   \* SpecOT: the transformed pair and both application orders, once done
  otm,    \* Document.OTManager of each document: [document, lastContent]
  calls,  \* log of the ProcessTextUpdate calls made, oldest first
  clients,          \* Hub.clients
  documentClients,  \* Hub.documentClients
  broadcast,        \* Hub.broadcast, the frames queued on the channel
  hubTask,          \* what Hub.run has received and is about to handle
  send,             \* Client.send of each client, the frames buffered
  sendClosed,       \* whether Client.send has been closed
  documents,        \* Service.documents
  cursors,          \* CursorManager.cursors of each document
  selections,       \* CursorManager.selections of each document
  hws,              \* where HandleWebSocket stands for each connection
  conn,             \* each connection's transport: "none", "open", "closed"
  rd,               \* where each readPump stands inside handleTextUpdate
  panicked,         \* a goroutine panicked: the process is gone
  buf,              \* browser side: the editor's text
  cver,             \* browser side: state.documentVersion
  got,              \* log of the frames placed on each client's queue
  rcvd,             \* log of the frames each writePump wrote to its transport
  fanned,           \* log of the text_update frames Hub.run has fanned out
  nMsgs,            \* number of client messages read so far
  quota,            \* number of client messages the run has room for
  sendCap,          \* capacity of every Client.send in this run
  docOf,            \* Client.documentID of each connection
  gd,               \* where each caller of Service.GetDocument stands
  allocated,        \* the Document objects created so far, oldest first
  stored,           \* Service.documents as pointers: index in allocated, or 0
  useDb,            \* Service.db # nil: the service runs with a store
  db,               \* the store's documents table: a row per document
  lastSaved,        \* how often Document.lastSaved has been set by a save
  documentsSaved,   \* Metrics.DocumentsSaved
  sv,               \* where the auto-save loop and Shutdown stand
  down,             \* how far Service.Shutdown has got
  documentsActive   \* Metrics.DocumentsActive

otVars == <<tS, tA, tB, tOut>>

engineVars == <<otm, calls>>

hubVars == <<clients, documentClients, send, sendClosed, got, panicked>>

\* The callers of GetDocument and the Document objects they created.  The
\* variable documents holds the fields of the Document s.documents leads to;
\* gd, allocated and stored follow which Document object each caller holds,
\* and only SpecGetDoc moves them.
getDocVars == <<gd, allocated, stored>>

\* The store, the save bookkeeping and the goroutines that save.
saveVars == <<useDb, db, lastSaved, documentsSaved, sv, down>>

svcVars == <<clients, documentClients, broadcast, hubTask, send, sendClosed,
             documents, cursors, selections, hws, conn, rd, panicked,
             buf, cver, got, rcvd, fanned, nMsgs, quota, sendCap, docOf,
             getDocVars, saveVars, documentsActive>>

\* What the hub, session and client actions leave as Init chose it.
runVars == <<quota, sendCap, docOf, getDocVars, saveVars, documentsActive>>

\* The same without the counter of active documents, for the steps that
\* call GetDocument.
stillVars == <<quota, sendCap, docOf, getDocVars, saveVars>>

vars == <<tS, tA, tB, tOut, otm, calls, clients, documentClients, broadcast,
          hubTask, send, sendClosed, documents, cursors, selections, hws,
          conn, rd, panicked, buf, cver, got, rcvd, fanned, nMsgs, quota,
          sendCap, docOf, gd, allocated, stored, useDb, db, lastSaved,
          documentsSaved, sv, down, documentsActive>>

\* ------------------------------------------------------ SpecOT (Transform)

\* The Inserts and Deletes Apply accepts on content s.
ValidOps(s) ==
  {Operation(OpInsert, p, <<ch>>, 0, id, 0) :
      p \in 0..Len(s), ch \in Chars, id \in Clients}
  \cup
  {Operation(OpDelete, pl[1], <<>>, pl[2], id, 0) :
      pl \in {x \in (0..Len(s)) \X (1..Len(s)) : x[1] + x[2] <= Len(s)},
      id \in Clients}

\* Apply x then y to content s; the first failure is kept.
ApplyTwo(s, x, y) ==
  LET r1 == Apply([NewDocument EXCEPT !.Content = s], x)
  IN IF r1.err # "nil" THEN r1 ELSE Apply(r1.doc, y)

OTIdle ==
  /\ tS = <<>>
  /\ tA = Operation(OpRetain, 0, <<>>, 0, "", 0)
  /\ tB = Operation(OpRetain, 0, <<>>, 0, "", 0)
  /\ tOut = [done |-> FALSE]

EngineIdle ==
  /\ otm = [d \in Docs |-> NewOTManager]
  /\ calls = <<>>

\* A Document that GetDocument has not created yet.
NoDocument ==
  [exists |-> FALSE, Content |-> <<>>, Version |-> 0, dirty |-> FALSE,
   ActiveClients |-> {}]

\* No call of GetDocument has started and no Document object exists.
GetDocIdle ==
  /\ gd = [c \in Clients |-> [pc |-> "out", doc |-> 0]]
  /\ allocated = <<>>
  /\ stored = [d \in Docs |-> 0]

\* The goroutines that call SaveDocument on their own: the auto-save loop
\* and Service.Shutdown.
Savers == {"auto", "shutdown"}

\* A document the store has no row for.
NoRow == [has |-> FALSE, Content |-> <<>>, Version |-> 0]

\* Nothing has been saved, nobody is saving and Shutdown has not been called.
SaveIdle ==
  /\ lastSaved = [d \in Docs |-> 0]
  /\ documentsSaved = 0
  /\ sv = [p \in Savers |->
            [pc |-> "idle", ids |-> {}, id |-> "", content |-> <<>>,
             version |-> 0, errs |-> {}]]
  /\ down = "up"

\* NewService(cfg, nil): the memory-only mode of main.go.
NoStore ==
  /\ useDb = FALSE
  /\ db = [d \in Docs |-> NoRow]
  /\ SaveIdle

\* NewService, before any connection.
ServiceInit ==
  /\ GetDocIdle
  /\ NoStore
  /\ documentsActive = 0
  /\ clients = {}
  /\ documentClients = [d \in Docs |-> {}]
  /\ broadcast = <<>>
  /\ hubTask = [op |-> "idle", client |-> ""]
  /\ send = [c \in Clients |-> <<>>]
  /\ sendClosed = [c \in Clients |-> FALSE]
  /\ documents = [d \in Docs |-> NoDocument]
  /\ cursors = [d \in Docs |-> {}]
  /\ selections = [d \in Docs |-> {}]
  /\ hws = [c \in Clients |-> [pc |-> "new"]]
  /\ conn = [c \in Clients |-> "none"]
  /\ rd = [c \in Clients |-> [pc |-> "idle"]]
  /\ panicked = FALSE
  /\ buf = [c \in Clients |-> <<>>]
  /\ cver = [c \in Clients |-> 0]
  /\ got = [c \in Clients |-> <<>>]
  /\ rcvd = [c \in Clients |-> <<>>]
  /\ fanned = <<>>
  /\ nMsgs = 0
  /\ quota = MaxJoinMsgs
  /\ sendCap = SendCap
  /\ docOf = [c \in Clients |-> "d1"]

InitOT ==
  /\ tS \in GoStrings(MaxBase)
  /\ tA \in ValidOps(tS)
  /\ tB \in ValidOps(tS)
  /\ tOut = [done |-> FALSE]
  /\ EngineIdle
  /\ ServiceInit

DoTransform ==
  /\ ~tOut.done
  /\ LET r == Transform(tA, tB)
     IN tOut' = [done |-> TRUE, a1 |-> r[1], b1 |-> r[2],
                 left  |-> ApplyTwo(tS, tA, r[2]),
                 right |-> ApplyTwo(tS, tB, r[1])]
  /\ UNCHANGED <<tS, tA, tB, engineVars, svcVars>>

NextOT == DoTransform

SpecOT == InitOT /\ [][NextOT]_vars

\* C2: for every content S and operations a, b valid on S, with
\* (a', b') = Transform(a, b), applying a then b' and applying b then a'
\* both succeed and give the same content.
TransformConverges ==
  tOut.done =>
    /\ tOut.left.err = "nil"
    /\ tOut.right.err = "nil"
    /\ tOut.left.doc.Content = tOut.right.doc.Content

\* ------------------------------------------- SpecEngine (one OTManager)

EngineDoc == "d1"

\* One call of ProcessTextUpdate with arbitrary arguments.  A client may be
\* behind the engine or one ahead of it (a new Document starts at version 1
\* while its engine starts at 0).
EngineUpdate(c, newContent, clientVersion) ==
  /\ Len(calls) < MaxUpdates
  /\ LET m == otm[EngineDoc]
         r == ProcessTextUpdate(m, c, newContent, clientVersion)
     IN /\ otm' = [otm EXCEPT ![EngineDoc] = r.m]
        /\ calls' = Append(calls,
             [clientID |-> c, newContent |-> newContent,
              clientVersion |-> clientVersion,
              before |-> m.document, op |-> r.op, applied |-> r.applied,
              err |-> r.err])
  /\ UNCHANGED <<otVars, svcVars>>

InitEngine == OTIdle /\ EngineIdle /\ ServiceInit

NextEngine ==
  \E c \in Clients, newContent \in GoStrings(MaxLen) :
    \E clientVersion \in 0..(otm[EngineDoc].document.Version + 1) :
      EngineUpdate(c, newContent, clientVersion)

SpecEngine == InitEngine /\ [][NextEngine]_vars

\* The engine's document after the i-th call of the log.
DocAfter(i) ==
  IF i < Len(calls) THEN calls[i + 1].before ELSE otm[EngineDoc].document

\* C8: the engine's Version equals the number of non-Retain operations
\* applied so far (so an update whose diff is Retain leaves Version alone).
VersionCountsNonRetain ==
  otm[EngineDoc].document.Version =
    Cardinality({i \in 1..Len(calls) :
                   calls[i].err = "nil" /\ calls[i].applied.Type # OpRetain})

\* The content an operation of the data model yields on content c: an Insert
\* splices its text in at position, a Delete removes [position,
\* position+length), a Retain is the identity.
ReplayStep(c, op) ==
  CASE op.Type = OpInsert ->
         SubSeq(c, 1, op.Position) \o op.Content \o SubSeq(c, op.Position + 1, Len(c))
    [] op.Type = OpDelete ->
         SubSeq(c, 1, op.Position) \o SubSeq(c, op.Position + op.Length + 1, Len(c))
    [] OTHER -> c

\* Contents obtained by replaying the first i entries of history h on "".
Replay(h) ==
  [i \in 0..Len(h) |->
     LET R[k \in 0..i] == IF k = 0 THEN <<>> ELSE ReplayStep(R[k - 1], h[k])
     IN R[i]]

ValidOn(c, op) ==
  CASE op.Type = OpInsert -> op.Position >= 0 /\ op.Position <= Len(c)
    [] op.Type = OpDelete ->
         op.Position >= 0 /\ op.Length >= 0 /\ op.Position + op.Length <= Len(c)
    [] OTHER -> TRUE

\* C9: replaying AcknowledgedOps in order on the empty string reproduces
\* Content, and every history entry is in range for the content as it was
\* just before that entry.
ReplayReproducesContent ==
  LET d == otm[EngineDoc].document
      h == d.AcknowledgedOps
      R == Replay(h)
  IN /\ R[Len(h)] = d.Content
     /\ \A i \in 1..Len(h) : ValidOn(R[i - 1], h[i])

\* C9 witness: a history holding an Insert away from position 0 and a Delete
\* has been replayed.
ReplayWitness ==
  LET h == otm[EngineDoc].document.AcknowledgedOps
  IN /\ Len(h) = 2
     /\ h[1].Type = OpInsert /\ Len(h[1].Content) = 2
     /\ h[2].Type = OpDelete /\ h[2].Position = 1

\* op transformed, in application order, against every entry of history h
\* whose originator differs from op's.
RebaseOver(op, h) ==
  LET F[i \in 0..Len(h)] ==
        IF i = 0 THEN op
        ELSE IF h[i].ClientID # op.ClientID
          THEN Transform(F[i - 1], h[i])[1]
          ELSE F[i - 1]
  IN F[Len(h)]

\* C10: a call with clientVersion below the engine's Version applies the
\* derived operation rebased over every already-applied operation of the
\* other originators.
LateClientRebased ==
  \A i \in 1..Len(calls) :
    calls[i].clientVersion < calls[i].before.Version =>
      calls[i].applied = RebaseOver(calls[i].op, calls[i].before.AcknowledgedOps)

\* base with text x inserted at position p.
InsertAt(base, p, x) == SubSeq(base, 1, p) \o x \o SubSeq(base, p + 1, Len(base))

\* C3: when two clients holding the same content and version each submit that
\* content plus one insertion at the same position, the engine afterwards
\* holds both insertions, the smaller client id's first, and its version has
\* grown by exactly 2.
ConcurrentInsertsBothKept ==
  \A i \in 1..(Len(calls) - 1) :
    LET ca   == calls[i]
        cb   == calls[i + 1]
        base == ca.before.Content
    IN \A p \in 0..Len(base), x \in GoStrings(MaxLen) \ {<<>>},
          y \in GoStrings(MaxLen) \ {<<>>} :
         ( /\ ca.clientID # cb.clientID
           /\ ca.clientVersion = ca.before.Version
           /\ cb.clientVersion = ca.before.Version
           /\ ca.newContent = InsertAt(base, p, x)
           /\ cb.newContent = InsertAt(base, p, y) )
         => /\ DocAfter(i + 1).Content =
                 IF IdLess(ca.clientID, cb.clientID)
                   THEN InsertAt(base, p, x \o y)
                   ELSE InsertAt(base, p, y \o x)
            /\ DocAfter(i + 1).Version = ca.before.Version + 2

\* ------------------------------------------------ hub.go, the hub's sends

\* Message, as marshalled onto a queue; Data's members are flattened into
\* position, start, end and users.  seq is not on the wire: it tells the
\* frames apart by the client message they answer (0 for the handshake).
Frame(t, clientId, documentId) ==
  [type |-> t, clientId |-> clientId, documentId |-> documentId,
   content |-> <<>>, version |-> 0, position |-> 0, start |-> 0, end |-> 0,
   users |-> {}, seq |-> 0]

\* The frames a peer must never get back from itself.
PeerTypes ==
  {"text_update", "cursor_position", "selection_change", "typing_start",
   "typing_stop"}

\* The hub-side state the send helpers thread through.
HubState ==
  [clients |-> clients, documentClients |-> documentClients, send |-> send,
   sendClosed |-> sendClosed, got |-> got, panicked |-> panicked]

\* The log kept of a frame placed on a queue or written to a transport.
Logged(q, message) ==
  Append(q, [type |-> message.type, clientId |-> message.clientId,
             version |-> message.version, seq |-> message.seq])

\* Hub.broadcastToDocument with excludeClientID ignored: the sender is a
\* target like everybody else.
broadcastToDocumentWithEcho(st, docID, message, excludeClientID) ==
  LET targets == st.documentClients[docID]
      full    == {c \in targets : Len(st.send[c]) >= sendCap}
  IN [st EXCEPT
        !.send = [c \in Clients |->
                    IF c \in targets \ full THEN Append(@[c], message)
                    ELSE @[c]],
        !.got = [c \in Clients |->
                   IF c \in targets \ full THEN Logged(@[c], message)
                   ELSE @[c]],
        !.sendClosed = [c \in Clients |-> @[c] \/ c \in full],
        !.clients = @ \ full,
        !.documentClients[docID] = @ \ full]

\* Hub.broadcastToDocument with queues that are stacks without a capacity:
\* the newest frame is the first one the writer takes.
broadcastToDocumentLifo(st, docID, message, excludeClientID) ==
  LET targets == {c \in st.documentClients[docID] : c # excludeClientID}
  IN [st EXCEPT
        !.send = [c \in Clients |->
                    IF c \in targets THEN <<message>> \o @[c] ELSE @[c]],
        !.got = [c \in Clients |->
                   IF c \in targets THEN Logged(@[c], message) ELSE @[c]]]

\* Hub.broadcastToDocument: every client of the document but the excluded one
\* gets the message if its queue has room; a client whose queue is full has
\* the queue closed and is deleted from clients and documentClients.  A send
\* on a closed queue panics.
broadcastToDocument(st, docID, message, excludeClientID) ==
  LET targets == {c \in st.documentClients[docID] : c # excludeClientID}
      full    == {c \in targets : Len(st.send[c]) >= sendCap}
  IN IF \E c \in targets : st.sendClosed[c]
       THEN [st EXCEPT !.panicked = TRUE]
       ELSE [st EXCEPT
               !.send = [c \in Clients |->
                           IF c \in targets \ full THEN Append(@[c], message)
                           ELSE @[c]],
               !.got = [c \in Clients |->
                          IF c \in targets \ full THEN Logged(@[c], message)
                          ELSE @[c]],
               !.sendClosed = [c \in Clients |-> @[c] \/ c \in full],
               !.clients = @ \ full,
               !.documentClients[docID] = @ \ full]

\* Hub.sendActiveUsersToAll: the roster goes to every client of the document
\* whose queue has room; a full queue is skipped.
sendActiveUsersToAll(st, documentID) ==
  LET users   == st.documentClients[documentID]
      message == [Frame("active_users", "", documentID) EXCEPT !.users = users]
  IN IF \E c \in users : st.sendClosed[c]
       THEN [st EXCEPT !.panicked = TRUE]
       ELSE [st EXCEPT
               !.send = [c \in Clients |->
                           IF c \in users /\ Len(@[c]) < sendCap
                             THEN Append(@[c], message)
                             ELSE @[c]],
               !.got = [c \in Clients |->
                          IF c \in users /\ Len(st.send[c]) < sendCap
                            THEN Logged(@[c], message)
                            ELSE @[c]]]

\* Hub.notifyUserJoined.
notifyUserJoined(st, c, documentID) ==
  LET st1 == broadcastToDocument(st, documentID,
                                 Frame("user_joined", c, documentID), c)
  IN IF st1.panicked THEN st1 ELSE sendActiveUsersToAll(st1, documentID)

\* Hub.handleRegister.
handleRegister(st, c, documentID) ==
  notifyUserJoined(
    [st EXCEPT !.clients = @ \cup {c},
               !.documentClients[documentID] = @ \cup {c}],
    c, documentID)

\* Hub.handleBroadcast: every message type ends in the same broadcast; the
\* default case asks for a non-empty DocumentID.
handleBroadcast(st, message) ==
  IF message.type \in {"text_update", "cursor_position", "selection",
                       "typing_start", "typing_stop"}
     \/ message.documentId # ""
    THEN broadcastToDocument(st, message.documentId, message, message.clientId)
    ELSE st

\* Service.GetDocument without a database: the Document is created on first
\* use, empty and at version 1.
GetDocument(docs, id) ==
  IF docs[id].exists THEN docs
  ELSE [docs EXCEPT ![id] = [exists |-> TRUE, Content |-> <<>>, Version |-> 1,
                             dirty |-> TRUE, ActiveClients |-> {}]]

\* CursorManager.RemoveClient, on the cursors or on the selections.
RemoveClient(entries, clientID) == {e \in entries : e.ClientID # clientID}

\* Hub.notifyUserLeft.
notifyUserLeft(st, c, documentID) ==
  LET st1 == broadcastToDocument(st, documentID,
                                 Frame("user_left", c, documentID), c)
  IN IF st1.panicked THEN st1 ELSE sendActiveUsersToAll(st1, documentID)

\* Service.SaveDocument without a database: a dirty document becomes clean.
SaveDocument(docs, id) ==
  IF ~docs[id].exists \/ ~docs[id].dirty THEN docs
  ELSE [docs EXCEPT ![id].dirty = FALSE]

\* Service.RemoveClientFromDocument.
RemoveClientFromDocument(docs, c, id) ==
  LET d1 == GetDocument(docs, id)
      d2 == [d1 EXCEPT ![id].ActiveClients = @ \ {c}]
  IN IF d2[id].ActiveClients = {} THEN SaveDocument(d2, id) ELSE d2

\* The hub-side state together with what handleUnregister reaches through
\* client.service.
DetachState ==
  [clients |-> clients, documentClients |-> documentClients, send |-> send,
   sendClosed |-> sendClosed, got |-> got, panicked |-> panicked,
   documents |-> documents, cursors |-> cursors, selections |-> selections,
   useDb |-> useDb, db |-> db, lastSaved |-> lastSaved,
   documentsSaved |-> documentsSaved, documentsActive |-> documentsActive]

\* DocumentsActive++ of a GetDocument(id) that finds no Document.
Created(docs, id) == IF docs[id].exists THEN 0 ELSE 1

\* DocumentsActive-- of RemoveClientFromDocument: nobody is left in
\* ActiveClients once c is deleted from it.
Emptied(docs, c, id) ==
  IF GetDocument(docs, id)[id].ActiveClients \ {c} = {} THEN 1 ELSE 0

\* Whether RemoveClientFromDocument, removing c, reaches the save of
\* SaveDocument: c is the last of ActiveClients and the document is dirty.
Flushes(docs, c, id) ==
  LET d1 == GetDocument(docs, id)
  IN d1[id].ActiveClients \ {c} = {} /\ d1[id].dirty

\* The store side of that save, with a store that accepts the write:
\* db.UpdateDocument(docID, content, version), doc.lastSaved = time.Now(),
\* DocumentsSaved++.
FlushedBy(st, c, id) ==
  IF ~Flushes(st.documents, c, id) THEN st
  ELSE [st EXCEPT
          !.db[id] = IF st.useDb
                       THEN [has |-> TRUE, Content |-> st.documents[id].Content,
                             Version |-> st.documents[id].Version]
                       ELSE @,
          !.lastSaved[id] = @ + 1,
          !.documentsSaved = @ + 1]

\* Hub.handleUnregister without the test of h.clients.
handleUnregisterUnguarded(st, c, documentID) ==
  IF st.sendClosed[c] THEN [st EXCEPT !.panicked = TRUE]
  ELSE
    LET s1 == [st EXCEPT !.clients = @ \ {c},
                         !.sendClosed[c] = TRUE,
                         !.documentClients[documentID] = @ \ {c}]
        s2 == IF s1.documentClients[documentID] = {} THEN s1
              ELSE notifyUserLeft(s1, c, documentID)
        s3 == [s2 EXCEPT
                 !.documents = GetDocument(@, documentID),
                 !.cursors[documentID] = RemoveClient(@, c),
                 !.selections[documentID] = RemoveClient(@, c)]
        s4 == broadcastToDocument(s3, documentID,
                                  Frame("cursor_remove", c, documentID), c)
        s5 == [FlushedBy(s4, c, documentID) EXCEPT
                 !.documents = RemoveClientFromDocument(@, c, documentID),
                 !.documentsActive = @ + Created(s2.documents, documentID)
                                       - Emptied(s4.documents, c, documentID)]
    IN IF s2.panicked THEN s2
       ELSE IF s4.panicked THEN s4
       ELSE s5

\* Hub.handleUnregister with the cursor_remove broadcast left out.
handleUnregisterNoCursorRemove(st, c, documentID) ==
  IF c \notin st.clients THEN st
  ELSE
    LET s1 == [st EXCEPT !.clients = @ \ {c},
                         !.sendClosed[c] = TRUE,
                         !.documentClients[documentID] = @ \ {c}]
        s2 == IF s1.documentClients[documentID] = {} THEN s1
              ELSE notifyUserLeft(s1, c, documentID)
        s3 == [s2 EXCEPT
                 !.documents = GetDocument(@, documentID),
                 !.cursors[documentID] = RemoveClient(@, c),
                 !.selections[documentID] = RemoveClient(@, c)]
        s5 == [FlushedBy(s3, c, documentID) EXCEPT
                 !.documents = RemoveClientFromDocument(@, c, documentID),
                 !.documentsActive = @ + Created(s2.documents, documentID)
                                       - Emptied(s3.documents, c, documentID)]
    IN IF s2.panicked THEN s2 ELSE s5

\* Hub.handleUnregister: a client still in h.clients is deleted, its queue is
\* closed, the others are told (user_left, active_users), its cursor and
\* selection are removed, cursor_remove is broadcast and the service drops it
\* from ActiveClients.  A client no longer in h.clients is left alone.
handleUnregister(st, c, documentID) ==
  IF c \notin st.clients THEN st
  ELSE handleUnregisterUnguarded(st, c, documentID)

\* The variables HubState carries take the values of st.
HubBecomes(st) ==
  /\ clients' = st.clients
  /\ documentClients' = st.documentClients
  /\ send' = st.send
  /\ sendClosed' = st.sendClosed
  /\ got' = st.got
  /\ panicked' = st.panicked

\* ------------------------------------------------ service.go, client.go

\* The document a connection names in its doc query parameter.
DocOf(c) == docOf[c]

\* Cursor offsets and selection ends the browsers report.
Positions == {0}

\* Editor texts the browsers submit.
Texts == {<<>>, <<"a">>}

\* Hub.run receives a new client from Hub.register (HandleWebSocket's first
\* send); HandleWebSocket goes on to start the pumps and to send init.
HubAccept(c) ==
  /\ ~panicked
  /\ hubTask.op = "idle"
  /\ hws[c].pc = "new"
  /\ Cardinality({x \in Clients : hws[x].pc # "new"}) < MaxConns
  /\ hubTask' = [op |-> "register", client |-> c]
  /\ hws' = [hws EXCEPT ![c] = [pc |-> "init"]]
  /\ conn' = [conn EXCEPT ![c] = "open"]
  /\ UNCHANGED <<otVars, engineVars, hubVars, broadcast, documents, cursors,
                 selections, rd, buf, cver, fanned, nMsgs, rcvd, runVars>>

\* Hub.run handles the registration it received.
HubRegister ==
  /\ ~panicked
  /\ hubTask.op = "register"
  /\ HubBecomes(handleRegister(HubState, hubTask.client, DocOf(hubTask.client)))
  /\ hubTask' = [op |-> "idle", client |-> ""]
  /\ UNCHANGED <<otVars, engineVars, broadcast, documents, cursors,
                 selections, hws, conn, rd, buf, cver, fanned, nMsgs, rcvd,
                 runVars>>

\* Hub.run takes a message off Hub.broadcast and handles it.
HubBroadcast ==
  /\ ~panicked
  /\ hubTask.op = "idle"
  /\ broadcast # <<>>
  /\ HubBecomes(handleBroadcast(HubState, Head(broadcast)))
  /\ broadcast' = Tail(broadcast)
  /\ fanned' = IF Head(broadcast).type = "text_update"
                 THEN Append(fanned, [clientId |-> Head(broadcast).clientId,
                                      version |-> Head(broadcast).version,
                                      seq |-> Head(broadcast).seq])
                 ELSE fanned
  /\ UNCHANGED <<otVars, engineVars, hubTask, documents, cursors, selections,
                 hws, conn, rd, buf, cver, nMsgs, rcvd, runVars>>

\* client.send <- data, the blocking send of HandleWebSocket and
\* sendDocumentState: it waits for room and panics on a closed queue.
BlockingSend(c, message) ==
  IF sendClosed[c]
    THEN /\ panicked' = TRUE
         /\ UNCHANGED <<send, got>>
    ELSE /\ Len(send[c]) < sendCap
         /\ send' = [send EXCEPT ![c] = Append(@, message)]
         /\ got' = [got EXCEPT ![c] = Logged(@, message)]
         /\ UNCHANGED panicked

\* HandleWebSocket: client.send <- initData.
SendInit(c) ==
  /\ ~panicked
  /\ hws[c].pc = "init"
  /\ BlockingSend(c, Frame("init", c, ""))
  /\ hws' = [hws EXCEPT ![c] = [pc |-> "state"]]
  /\ UNCHANGED <<otVars, engineVars, clients, documentClients, sendClosed,
                 broadcast, hubTask, documents, cursors, selections, conn, rd,
                 buf, cver, fanned, nMsgs, rcvd, runVars>>

\* Service.sendDocumentState up to the marshalled state: the client joins
\* ActiveClients and the document's content and version are read.
AttachDocument(c) ==
  /\ ~panicked
  /\ hws[c].pc = "state"
  /\ LET docs == GetDocument(documents, DocOf(c))
         doc  == docs[DocOf(c)]
     IN /\ documents' = [docs EXCEPT ![DocOf(c)].ActiveClients = @ \cup {c}]
        /\ hws' = [hws EXCEPT ![c] =
                     [pc |-> "send_state",
                      frame |-> [Frame("document_state", "", DocOf(c))
                                   EXCEPT !.content = doc.Content,
                                          !.version = doc.Version]]]
  /\ documentsActive' = documentsActive + Created(documents, DocOf(c))
  /\ UNCHANGED <<otVars, engineVars, hubVars, broadcast, hubTask, cursors,
                 selections, conn, rd, buf, cver, fanned, nMsgs, rcvd, stillVars>>

\* Service.sendDocumentState: client.send <- data.
SendDocumentState(c) ==
  /\ ~panicked
  /\ hws[c].pc = "send_state"
  /\ BlockingSend(c, hws[c].frame)
  /\ hws' = [hws EXCEPT ![c] = [pc |-> "done"]]
  /\ UNCHANGED <<otVars, engineVars, clients, documentClients, sendClosed,
                 broadcast, hubTask, documents, cursors, selections, conn, rd,
                 buf, cver, fanned, nMsgs, rcvd, runVars>>

\* readPump is between two messages and the transport still delivers.
CanRead(c) ==
  /\ ~panicked
  /\ conn[c] = "open"
  /\ rd[c].pc = "idle"
  /\ nMsgs < quota

\* readPump reads a text_update and handleTextUpdate calls UpdateDocument,
\* which runs ProcessTextUpdate.  The browser sends its whole buffer with
\* state.documentVersion.
ReadTextUpdate(c, newContent) ==
  /\ CanRead(c)
  /\ LET id == DocOf(c)
         r  == ProcessTextUpdate(otm[id], c, newContent, cver[c])
     IN /\ documents' = GetDocument(documents, id)
        /\ otm' = [otm EXCEPT ![id] = r.m]
        /\ IF r.err = "panic"
             THEN /\ panicked' = TRUE
                  /\ UNCHANGED rd
             ELSE /\ UNCHANGED panicked
                  /\ rd' = [rd EXCEPT ![c] =
                       IF r.err = "nil"
                         THEN [pc |-> "write", content |-> r.content,
                               version |-> r.version, seq |-> nMsgs + 1]
                         ELSE [pc |-> "fallback", content |-> newContent,
                               version |-> 0, seq |-> nMsgs + 1]]
  /\ buf' = [buf EXCEPT ![c] = newContent]
  /\ nMsgs' = nMsgs + 1
  /\ documentsActive' = documentsActive + Created(documents, DocOf(c))
  /\ UNCHANGED <<otVars, calls, clients, documentClients, send, sendClosed,
                 got, broadcast, hubTask, cursors, selections, hws, conn,
                 cver, fanned, rcvd, stillVars>>

\* UpdateDocument stores the result in the Document under doc.mu (or, after
\* an engine error, overwrites with the submitted content and bumps Version);
\* handleTextUpdate then builds the frame to broadcast.
WriteDocument(c) ==
  /\ ~panicked
  /\ rd[c].pc \in {"write", "fallback"}
  /\ LET id == DocOf(c)
         v  == IF rd[c].pc = "write" THEN rd[c].version
               ELSE documents[id].Version + 1
     IN /\ documents' = [documents EXCEPT ![id].Content = rd[c].content,
                                          ![id].Version = v,
                                          ![id].dirty = TRUE]
        /\ rd' = [rd EXCEPT ![c] =
                    [pc |-> "bcast",
                     frame |-> [Frame("text_update", c, id)
                                  EXCEPT !.content = rd[c].content,
                                         !.version = v,
                                         !.seq = rd[c].seq]]]
  /\ UNCHANGED <<otVars, engineVars, hubVars, broadcast, hubTask, cursors,
                 selections, hws, conn, buf, cver, fanned, nMsgs, rcvd, runVars>>

\* handleTextUpdate: c.hub.broadcast <- data.
ReaderBroadcast(c) ==
  /\ ~panicked
  /\ rd[c].pc = "bcast"
  /\ Len(broadcast) < BroadcastCap
  /\ broadcast' = Append(broadcast, rd[c].frame)
  /\ rd' = [rd EXCEPT ![c] = [pc |-> "idle"]]
  /\ UNCHANGED <<otVars, engineVars, hubVars, hubTask, documents, cursors,
                 selections, hws, conn, buf, cver, fanned, nMsgs, rcvd, runVars>>

\* CursorManager.UpdateCursorPosition.
UpdateCursorPosition(cs, clientID, position) ==
  {e \in cs : e.ClientID # clientID}
    \cup {[ClientID |-> clientID, Position |-> position]}

\* CursorManager.UpdateSelection storing the empty selection like any other.
UpdateSelectionKeepsEmpty(ss, clientID, start, end) ==
  {e \in ss : e.ClientID # clientID}
    \cup {[ClientID |-> clientID, Start |-> start, End |-> end]}

\* CursorManager.UpdateSelection.
UpdateSelection(ss, clientID, start, end) ==
  IF start = end
    THEN {e \in ss : e.ClientID # clientID}
    ELSE {e \in ss : e.ClientID # clientID}
           \cup {[ClientID |-> clientID, Start |-> start, End |-> end]}

\* readPump reads a cursor_position: handleCursorPosition.
ReadCursorPosition(c, position) ==
  /\ CanRead(c)
  /\ Len(broadcast) < BroadcastCap
  /\ documents' = GetDocument(documents, DocOf(c))
  /\ cursors' = [cursors EXCEPT ![DocOf(c)] = UpdateCursorPosition(@, c, position)]
  /\ broadcast' = Append(broadcast,
       [Frame("cursor_position", c, DocOf(c))
          EXCEPT !.position = position, !.seq = nMsgs + 1])
  /\ nMsgs' = nMsgs + 1
  /\ documentsActive' = documentsActive + Created(documents, DocOf(c))
  /\ UNCHANGED <<otVars, engineVars, hubVars, hubTask, selections, hws, conn,
                 rd, buf, cver, fanned, rcvd, stillVars>>

\* readPump reads a selection_change: handleSelectionChange.
ReadSelectionChange(c, start, end) ==
  /\ CanRead(c)
  /\ Len(broadcast) < BroadcastCap
  /\ documents' = GetDocument(documents, DocOf(c))
  /\ selections' = [selections EXCEPT ![DocOf(c)] = UpdateSelection(@, c, start, end)]
  /\ broadcast' = Append(broadcast,
       [Frame("selection_change", c, DocOf(c))
          EXCEPT !.start = start, !.end = end, !.seq = nMsgs + 1])
  /\ nMsgs' = nMsgs + 1
  /\ documentsActive' = documentsActive + Created(documents, DocOf(c))
  /\ UNCHANGED <<otVars, engineVars, hubVars, hubTask, cursors, hws, conn, rd,
                 buf, cver, fanned, rcvd, stillVars>>

\* Client.processMessage with the metadata left as the browser wrote it.
processMessageAsWritten(c, msg) == msg

\* Client.processMessage: whatever the browser wrote, the message carries the
\* connection's own id and document.
processMessage(c, msg) ==
  [msg EXCEPT !.clientId = c, !.documentId = DocOf(c)]

\* handleTypingStart/handleTypingStop that would also mark the document as
\* changed.
ReadTypingDirties(c, t) ==
  /\ CanRead(c)
  /\ Len(broadcast) < BroadcastCap
  /\ \E wc \in Clients, wd \in Docs :
       broadcast' = Append(broadcast,
         [processMessage(c, Frame(t, wc, wd)) EXCEPT !.seq = nMsgs + 1])
  /\ nMsgs' = nMsgs + 1
  /\ documents' = [documents EXCEPT ![DocOf(c)].Version = @ + 1,
                                    ![DocOf(c)].dirty = TRUE]
  /\ UNCHANGED <<otVars, engineVars, hubVars, hubTask, cursors, selections,
                 hws, conn, rd, buf, cver, fanned, rcvd, runVars>>

\* readPump reads typing_start or typing_stop: handleTypingStart,
\* handleTypingStop marshal the message processMessage handed them.
ReadTyping(c, t) ==
  /\ CanRead(c)
  /\ Len(broadcast) < BroadcastCap
  /\ \E wc \in Clients, wd \in Docs :
       broadcast' = Append(broadcast,
         [processMessage(c, Frame(t, wc, wd)) EXCEPT !.seq = nMsgs + 1])
  /\ nMsgs' = nMsgs + 1
  /\ UNCHANGED <<otVars, engineVars, hubVars, hubTask, documents, cursors,
                 selections, hws, conn, rd, buf, cver, fanned, rcvd, runVars>>

\* writePump takes the next frame off Client.send and writes it to the
\* transport; the browser's handleMessage takes it from there.
WriterDeliver(c) ==
  /\ ~panicked
  /\ conn[c] = "open"
  /\ send[c] # <<>>
  /\ LET m == Head(send[c])
     IN /\ send' = [send EXCEPT ![c] = Tail(@)]
        /\ rcvd' = [rcvd EXCEPT ![c] = Logged(@, m)]
        /\ buf' = [buf EXCEPT ![c] =
                     IF m.type \in {"document_state", "text_update"}
                       THEN m.content ELSE @]
        /\ cver' = [cver EXCEPT ![c] =
                      IF m.type = "document_state" THEN m.version
                      ELSE IF m.type = "text_update"
                        THEN (IF m.version # 0 THEN m.version ELSE @ + 1)
                      ELSE @]
  /\ UNCHANGED <<otVars, engineVars, clients, documentClients, sendClosed,
                 got, panicked, broadcast, hubTask, documents, cursors,
                 selections, hws, conn, rd, fanned, nMsgs, runVars>>

\* writePump finds Client.send closed and drained: it returns and closes the
\* transport, so readPump reads nothing more.
WriterClose(c) ==
  /\ ~panicked
  /\ conn[c] = "open"
  /\ send[c] = <<>>
  /\ sendClosed[c]
  /\ conn' = [conn EXCEPT ![c] = "closed"]
  /\ UNCHANGED <<otVars, engineVars, hubVars, broadcast, hubTask, documents,
                 cursors, selections, hws, rd, buf, cver, fanned, nMsgs, rcvd,
                 runVars>>

\* The connections whose browser may go away.
Leavers == {"a1"}

\* The browser goes away: the transport is closed from the far end.
Disconnect(c) ==
  /\ ~panicked
  /\ conn[c] = "open"
  /\ c \in Leavers
  /\ conn' = [conn EXCEPT ![c] = "hungup"]
  /\ UNCHANGED <<otVars, engineVars, hubVars, broadcast, hubTask, documents,
                 cursors, selections, hws, rd, buf, cver, fanned, nMsgs, rcvd,
                 runVars>>

\* readPump finds the transport closed, leaves its loop and hands the client
\* to Hub.unregister; Hub.run receives it and runs handleUnregister.  rd
\* remembers whether the hub still knew the client.
HubUnregister(c) ==
  /\ ~panicked
  /\ hubTask.op = "idle"
  /\ rd[c].pc = "idle"
  /\ conn[c] \in {"closed", "hungup"}
  /\ LET st == handleUnregister(DetachState, c, DocOf(c))
     IN /\ HubBecomes(st)
        /\ documents' = st.documents
        /\ cursors' = st.cursors
        /\ selections' = st.selections
        /\ db' = st.db
        /\ lastSaved' = st.lastSaved
        /\ documentsSaved' = st.documentsSaved
        /\ documentsActive' = st.documentsActive
  /\ rd' = [rd EXCEPT ![c] = [pc |-> "gone", known |-> c \in clients]]
  /\ UNCHANGED <<otVars, engineVars, broadcast, hubTask, hws, conn, buf, cver,
                 fanned, nMsgs, rcvd, quota, sendCap, docOf, getDocVars,
                 useDb, sv, down>>

Init == OTIdle /\ EngineIdle /\ ServiceInit

Next ==
  \/ \E c \in Clients : HubAccept(c)
  \/ HubRegister
  \/ HubBroadcast
  \/ \E c \in Clients : SendInit(c)
  \/ \E c \in Clients : AttachDocument(c)
  \/ \E c \in Clients : SendDocumentState(c)
  \/ \E c \in Clients, newContent \in Texts :
       ReadTextUpdate(c, newContent)
  \/ \E c \in Clients : WriteDocument(c)
  \/ \E c \in Clients : ReaderBroadcast(c)
  \/ \E c \in Clients, position \in Positions : ReadCursorPosition(c, position)
  \/ \E c \in Clients, start \in Positions, end \in Positions :
       ReadSelectionChange(c, start, end)
  \/ \E c \in Clients, t \in {"typing_start", "typing_stop"} : ReadTyping(c, t)
  \/ \E c \in Clients : WriterDeliver(c)
  \/ \E c \in Clients : WriterClose(c)

Spec == Init /\ [][Next]_vars

\* --------------------------------------------- SpecSession (one session)

\* The service once the connections of A have shaken hands on the document
\* and their writers have drained the handshake frames: every one of them is
\* registered, attached and holds the new document's state.
SessionAt(A, f, cap, q, content, version, dirty) ==
  /\ LET used == SelectSeq(DocOrder, LAMBDA d : \E c \in A : f[c] = d)
         at(d) == IF \E i \in 1..Len(used) : used[i] = d
                    THEN CHOOSE i \in 1..Len(used) : used[i] = d
                    ELSE 0
     IN /\ allocated = [i \in 1..Len(used) |-> [ID |-> used[i]]]
        /\ stored = [d \in Docs |-> at(d)]
        /\ gd = [c \in Clients |->
                   IF c \in A THEN [pc |-> "done", doc |-> at(f[c])]
                   ELSE [pc |-> "out", doc |-> 0]]
  /\ documentsActive = Cardinality({d \in Docs : \E c \in A : f[c] = d})
  /\ clients = A
  /\ documentClients = [d \in Docs |-> {c \in A : f[c] = d}]
  /\ broadcast = <<>>
  /\ hubTask = [op |-> "idle", client |-> ""]
  /\ send = [c \in Clients |-> <<>>]
  /\ sendClosed = [c \in Clients |-> FALSE]
  /\ documents = [d \in Docs |->
                    IF \E c \in A : f[c] = d
                      THEN [exists |-> TRUE, Content |-> content,
                            Version |-> version, dirty |-> dirty,
                            ActiveClients |-> {c \in A : f[c] = d}]
                      ELSE NoDocument]
  /\ cursors = [d \in Docs |-> {}]
  /\ selections = [d \in Docs |-> {}]
  /\ hws = [c \in Clients |->
              IF c \in A THEN [pc |-> "done"] ELSE [pc |-> "new"]]
  /\ conn = [c \in Clients |-> IF c \in A THEN "open" ELSE "none"]
  /\ rd = [c \in Clients |-> [pc |-> "idle"]]
  /\ panicked = FALSE
  /\ buf = [c \in Clients |-> IF c \in A THEN content ELSE <<>>]
  /\ cver = [c \in Clients |-> IF c \in A THEN version ELSE 0]
  /\ got = [c \in Clients |-> <<>>]
  /\ rcvd = [c \in Clients |-> <<>>]
  /\ fanned = <<>>
  /\ nMsgs = 0
  /\ quota = q
  /\ sendCap = cap
  /\ docOf = f

\* The documents are new: empty, at version 1 and dirty.
SessionCore(A, f, cap, q) == SessionAt(A, f, cap, q, <<>>, 1, TRUE)

\* The same in the memory-only mode.
SessionInitOn(A, f, cap, q) == SessionCore(A, f, cap, q) /\ NoStore

\* The same with a store: GetDocument created a row for every new document
\* (db.CreateDocument(id, "")), taken to hold the document as created.
SessionInitDb(A, f, cap, q) ==
  /\ SessionCore(A, f, cap, q)
  /\ useDb = TRUE
  /\ db = [d \in Docs |->
             IF \E c \in A : f[c] = d
               THEN [has |-> TRUE, Content |-> <<>>, Version |-> 1]
               ELSE NoRow]
  /\ SaveIdle

\* The same with every connection on document d1, the queue capacity SendCap
\* and room for MaxMsgs messages.
SessionInit(A) ==
  SessionInitOn(A, [c \in Clients |-> "d1"], SendCap, MaxMsgs)

InitSession == OTIdle /\ EngineIdle /\ SessionInit(Clients)

\* What readers, writers and the hub loop do once nobody connects any more.
NextSession ==
  \/ HubBroadcast
  \/ \E c \in Clients, newContent \in Texts :
       ReadTextUpdate(c, newContent)
  \/ \E c \in Clients : WriteDocument(c)
  \/ \E c \in Clients : ReaderBroadcast(c)
  \/ \E c \in Clients, position \in Positions : ReadCursorPosition(c, position)
  \/ \E c \in Clients, start \in Positions, end \in Positions :
       ReadSelectionChange(c, start, end)
  \/ \E c \in Clients, t \in {"typing_start", "typing_stop"} : ReadTyping(c, t)
  \/ \E c \in Clients : WriterDeliver(c)
  \/ \E c \in Clients : WriterClose(c)

SpecSession == InitSession /\ [][NextSession]_vars

\* The text_update entries of a log, oldest first.
TextUpdates(q) == SelectSeq(q, LAMBDA e : e.type = "text_update")

\* The clients attached to document d: registered with the hub, in the
\* document's set, with an open transport and an open queue.
Attached(d) ==
  {c \in clients \cap documentClients[d] :
     conn[c] = "open" /\ ~sendClosed[c] /\ DocOf(c) = d}

\* Every enqueued frame has been delivered and no update is in flight.
Quiescent ==
  /\ ~panicked
  /\ broadcast = <<>>
  /\ hubTask.op = "idle"
  /\ \A c \in Clients : rd[c].pc = "idle" /\ send[c] = <<>>

\* C1: at quiescence every attached client's buffer (its last own
\* submission, overwritten by any text_update or document_state received
\* afterwards) equals the server's document content.
ConvergedAtQuiescence ==
  Quiescent =>
    \A d \in Docs : \A c \in Attached(d) : buf[c] = documents[d].Content

\* C4: no participant's outbound queue ever receives a text_update,
\* cursor_position, selection_change, typing_start or typing_stop frame whose
\* clientId is the participant's own id.
EchoSuppressed ==
  \A c \in Clients : \A i \in 1..Len(got[c]) :
    got[c][i].type \in PeerTypes => got[c][i].clientId # c

\* A member of the document with an open queue that has room has had its own
\* text_update and its own signal fanned out to a peer.
EchoWitness ==
  \E c \in Clients : \E p \in Clients \ {c} :
    /\ c \in documentClients[DocOf(c)]
    /\ ~sendClosed[c]
    /\ send[c] = <<>>
    /\ \E i \in 1..Len(got[p]) :
         got[p][i].type = "text_update" /\ got[p][i].clientId = c
    /\ \E i \in 1..Len(got[p]) :
         /\ got[p][i].type \in PeerTypes \ {"text_update"}
         /\ got[p][i].clientId = c

\* C5: for every participant, the version fields of the text_update frames
\* placed on its outbound queue are strictly increasing in queue order.
TextUpdateVersionsIncrease ==
  \A c \in Clients :
    LET q == TextUpdates(got[c])
    IN \A i \in 1..Len(q), j \in 1..Len(q) :
         i < j => q[i].version < q[j].version

\* C6: once a client's text_update has been processed successfully and
\* fanned out, the originator's outbound queue has been given a frame for
\* that update carrying the version the other participants were sent.
OriginatorAcknowledged ==
  \A i \in 1..Len(fanned) :
    \E j \in 1..Len(got[fanned[i].clientId]) :
      LET e == got[fanned[i].clientId][j]
      IN e.seq = fanned[i].seq /\ e.version = fanned[i].version

InitDetach ==
  /\ OTIdle
  /\ EngineIdle
  /\ \E cap \in {SendCap, DetachCap} :
       SessionInitOn(Clients, [c \in Clients |-> "d1"], cap, MaxDetachMsgs)

NextDetach ==
  \/ NextSession
  \/ \E c \in Clients : Disconnect(c)
  \/ \E c \in Clients : HubUnregister(c)

SpecDetach == InitDetach /\ [][NextDetach]_vars

\* --------------------------------------------- SpecIsolation (two documents)

\* a1 and b9 are attached to d1, c5 to d2.
InitIsolation ==
  /\ OTIdle
  /\ EngineIdle
  /\ SessionInitOn(Clients,
                   [c \in Clients |-> IF c = "c5" THEN "d2" ELSE "d1"],
                   DetachCap, MaxDetachMsgs)

SpecIsolation == InitIsolation /\ [][NextDetach]_vars

\* The hub has processed c's departure: its queue is closed and it is out
\* of h.clients (after handleUnregister or after an eviction).
Departed(c) == sendClosed[c] /\ c \notin clients

\* C11: in every reachable state, for every client whose departure from a
\* document (by disconnect or by slow-consumer eviction) has been processed,
\* the document's CursorManager holds neither a cursor nor a selection entry
\* for it.
NoPresenceAfterDeparture ==
  \A c \in Clients :
    Departed(c) =>
      /\ \A e \in cursors[DocOf(c)] : e.ClientID # c
      /\ \A e \in selections[DocOf(c)] : e.ClientID # c

EvictedLeavesParticipantSet ==
  \A c \in Clients :
    (sendClosed[c] /\ rd[c].pc = "gone") =>
      /\ c \notin clients
      /\ c \notin documentClients[DocOf(c)]
      /\ c \notin documents[DocOf(c)].ActiveClients

\* c was evicted by a broadcast and the hub has since run handleUnregister
\* for it.
EvictedAndGone(c) == rd[c].pc = "gone" /\ ~rd[c].known

\* C14: when a participant has been evicted because its outbound queue was
\* full and its connection has wound down, every participant that remains
\* in the document has been sent a user_left frame naming the evicted client.
EvictedAnnounced ==
  \A c \in Clients :
    (EvictedAndGone(c) /\ hubTask.op = "idle" /\ broadcast = <<>>) =>
      \A p \in documentClients[DocOf(c)] :
        \E i \in 1..Len(got[p]) :
          got[p][i].type = "user_left" /\ got[p][i].clientId = c

\* Queue q holds a frame of type t naming client c.
Holds(q, t, c) == \E i \in 1..Len(q) : q[i].type = t /\ q[i].clientId = c

DetachIdempotent ==
  [][\A c \in Clients :
       (HubUnregister(c) /\ c \notin clients) =>
         UNCHANGED <<hubVars, documents, cursors, selections, broadcast>>]_vars

\* The hub has run handleUnregister for a client it had already evicted.
DetachIdempotentWitness ==
  \E c \in Clients : EvictedAndGone(c) /\ sendClosed[c] /\ ~panicked

\* No UpdateDocument call on document d is between its engine update and
\* its return.
UpdatesReturned(d) ==
  \A c \in Clients : DocOf(c) = d => rd[c].pc \notin {"write", "fallback"}

\* C18: once every UpdateDocument call on a document has returned and the
\* engine has applied at least one update, Document.Content and
\* Document.Version are the content and version the engine produced last.
LastEngineUpdateStored ==
  \A d \in Docs :
    (~panicked /\ UpdatesReturned(d) /\ otm[d].document.Version > 0) =>
      /\ documents[d].Content = otm[d].document.Content
      /\ documents[d].Version = otm[d].document.Version

\* ------------------------------------------------------ SpecApply (Apply)

\* Longest inserted or removed run drawn for the pure specifications.
MaxEdit == 2

\* Inserts and Deletes with Position and Length in and around the content,
\* negative values included (Position and Length are Go ints).
AnyOps ==
  {Operation(OpInsert, p, <<ch>>, 0, "a1", 0) :
      p \in (-1)..(MaxBase + 1), ch \in Chars}
  \cup
  {Operation(OpDelete, p, <<>>, l, "a1", 0) :
      p \in (-1)..(MaxBase + 1), l \in (-1)..(MaxBase + 1)}

InitApply ==
  /\ tS \in GoStrings(MaxBase)
  /\ tA \in AnyOps
  /\ tB = Operation(OpRetain, 0, <<>>, 0, "", 0)
  /\ tOut = [done |-> FALSE]
  /\ EngineIdle
  /\ ServiceInit

\* d.Apply(tA) on a document holding tS.
DoApply ==
  /\ ~tOut.done
  /\ tOut' = [done |-> TRUE,
              r |-> Apply([NewDocument EXCEPT !.Content = tS], tA)]
  /\ UNCHANGED <<tS, tA, tB, engineVars, svcVars>>

NextApply == DoApply

SpecApply == InitApply /\ [][NextApply]_vars

\* An Insert whose position is outside [0, n], or a Delete whose
\* [Position, Position + Length) is not a range inside a content of n bytes.
OutOfRange(op, n) ==
  CASE op.Type = OpInsert -> op.Position < 0 \/ op.Position > n
    [] op.Type = OpDelete ->
         ~(0 <= op.Position /\ 0 <= op.Length /\ op.Position + op.Length <= n)
    [] OTHER -> FALSE

\* C19: applying an Insert whose position is outside [0, len(content)] or a
\* Delete whose range is not inside the content returns an error and leaves
\* Content, Version and AcknowledgedOps as they were.
ApplyFailsCleanly ==
  (tOut.done /\ OutOfRange(tA, Len(tS))) =>
    /\ tOut.r.err = "error"
    /\ tOut.r.doc = [NewDocument EXCEPT !.Content = tS]

\* ----------------------------------------------- SpecDiff (GenerateOperation)

\* s with one contiguous non-empty run inserted, or one removed.
OneEdit(s) ==
  {Slice(s, 0, p) \o x \o SliceFrom(s, p) :
      p \in 0..Len(s), x \in GoStrings(MaxEdit) \ {<<>>}}
  \cup
  {Slice(s, 0, pk[1]) \o SliceFrom(s, pk[1] + pk[2]) :
      pk \in {y \in (0..Len(s)) \X (1..MaxEdit) : y[1] + y[2] <= Len(s)}}

InitDiff ==
  /\ tS \in GoStrings(MaxBase)
  /\ tA = Operation(OpRetain, 0, <<>>, 0, "", 0)
  /\ tB = Operation(OpRetain, 0, <<>>, 0, "", 0)
  /\ tOut = [done |-> FALSE]
  /\ EngineIdle
  /\ ServiceInit

\* GenerateOperation(tS, t) and its application to a document holding tS.
DoDiff(t) ==
  /\ ~tOut.done
  /\ LET op == GenerateOperation(tS, t, "a1")
     IN /\ tA' = op
        /\ tOut' = [done |-> TRUE, new |-> t,
                    r |-> Apply([NewDocument EXCEPT !.Content = tS], op)]
  /\ UNCHANGED <<tS, tB, engineVars, svcVars>>

NextDiff == \E t \in OneEdit(tS) : DoDiff(t)

SpecDiff == InitDiff /\ [][NextDiff]_vars

\* C20: for S and T where T is S with one contiguous non-empty insertion or
\* deletion, applying GenerateOperation(S, T) to S succeeds and yields T.
DiffRoundTrip ==
  tOut.done => (tOut.r.err = "nil" /\ tOut.r.doc.Content = tOut.new)

\* An insertion into a run of equal bytes, which the diff reports at the end
\* of the old content, has been applied and gives the new content.
DiffRoundTripWitness ==
  /\ tOut.done
  /\ tOut.r.err = "nil"
  /\ tOut.r.doc.Content = tOut.new
  /\ tS = <<"a", "a">>
  /\ tOut.new = <<"a", "a", "a">>
  /\ tA.Type = OpInsert
  /\ tA.Position = 2

\* ------------------------------------------- SpecGetDoc (Service.GetDocument)

\* The hub, session and client variables, which GetDocument does not touch.
restVars == <<otVars, engineVars, clients, documentClients, broadcast,
              hubTask, send, sendClosed, documents, cursors, selections, hws,
              conn, rd, panicked, buf, cver, got, rcvd, fanned, nMsgs, quota,
              sendCap, docOf, saveVars>>

\* GetDocument: under s.mu.RLock, doc, exists := s.documents[id]; an existing
\* Document is returned.
GetDocumentLookup(c) ==
  /\ gd[c].pc = "out"
  /\ gd' = [gd EXCEPT ![c] =
              IF stored[DocOf(c)] # 0
                THEN [pc |-> "have", doc |-> stored[DocOf(c)]]
                ELSE [pc |-> "miss", doc |-> 0]]
  /\ UNCHANGED <<allocated, stored, restVars, documentsActive>>

\* GetDocument, no lock held: doc = &Document{...}.
GetDocumentCreate(c) ==
  /\ gd[c].pc = "miss"
  /\ allocated' = Append(allocated, [ID |-> DocOf(c)])
  /\ gd' = [gd EXCEPT ![c] = [pc |-> "made", doc |-> Len(allocated) + 1]]
  /\ UNCHANGED <<stored, restVars, documentsActive>>

\* GetDocument: under s.mu.Lock, s.documents[id] = doc; DocumentsActive++;
\* the Document is returned.
GetDocumentStore(c) ==
  /\ gd[c].pc = "made"
  /\ stored' = [stored EXCEPT ![DocOf(c)] = gd[c].doc]
  /\ gd' = [gd EXCEPT ![c].pc = "have"]
  /\ documentsActive' = documentsActive + 1
  /\ UNCHANGED <<allocated, restVars>>

\* sendDocumentState: doc.ActiveClients[client.id] = client on the Document
\* GetDocument returned; gd[c].doc stays the Document c is attached to.
AttachClient(c) ==
  /\ gd[c].pc = "have"
  /\ gd' = [gd EXCEPT ![c].pc = "done"]
  /\ UNCHANGED <<allocated, stored, restVars, documentsActive>>

InitGetDoc == OTIdle /\ EngineIdle /\ ServiceInit

NextGetDoc ==
  \/ \E c \in Clients : GetDocumentLookup(c)
  \/ \E c \in Clients : GetDocumentCreate(c)
  \/ \E c \in Clients : GetDocumentStore(c)
  \/ \E c \in Clients : AttachClient(c)

SpecGetDoc == InitGetDoc /\ [][NextGetDoc]_vars

\* C17: whatever the interleaving of the GetDocument calls for one id, one
\* Document is created for that id, and every caller that has returned and
\* attached its client holds the Document s.documents holds for the id.
GetOrCreateAtomic ==
  \A d \in Docs :
    LET back == {c \in Clients : DocOf(c) = d /\ gd[c].pc = "done"}
    IN back # {} =>
         /\ Cardinality({i \in 1..Len(allocated) : allocated[i].ID = d}) = 1
         /\ \A c \in back : gd[c].doc = stored[d]

\* ---------------------------------------- SpecMirror (Transform both ways)

\* Contents of up to MaxBase bytes of one letter: only the length of the
\* content decides which operations are valid on it.
Runs == UNION {[1..k -> {"a"}] : k \in 0..MaxBase}

\* The Inserts of 1..MaxEdit bytes and the Deletes Apply accepts on s.
EditOps(s) ==
  {Operation(OpInsert, p, x, 0, id, 0) :
      p \in 0..Len(s), x \in GoStrings(MaxEdit) \ {<<>>}, id \in Clients}
  \cup
  {Operation(OpDelete, pl[1], <<>>, pl[2], id, 0) :
      pl \in {y \in (0..Len(s)) \X (1..Len(s)) : y[1] + y[2] <= Len(s)},
      id \in Clients}

InitMirror ==
  /\ tS \in Runs
  /\ tA \in EditOps(tS)
  /\ tB \in EditOps(tS)
  /\ tOut = [done |-> FALSE]
  /\ EngineIdle
  /\ ServiceInit

\* Transform(tA, tB) and Transform(tB, tA).
DoMirror ==
  /\ ~tOut.done
  /\ tOut' = [done |-> TRUE, ab |-> Transform(tA, tB), ba |-> Transform(tB, tA)]
  /\ UNCHANGED <<tS, tA, tB, engineVars, svcVars>>

NextMirror == DoMirror

SpecMirror == InitMirror /\ [][NextMirror]_vars

\* tA and tB are Inserts at one position from distinct originators.
InsertTie ==
  /\ tA.Type = OpInsert
  /\ tB.Type = OpInsert
  /\ tA.Position = tB.Position
  /\ tA.ClientID # tB.ClientID

\* C21: for two Inserts at the same position from distinct originators,
\* Transform(b, a) is the swapped pair of Transform(a, b); in both orders the
\* Insert of the smaller ClientID is unchanged and the other one is shifted
\* right by the length of the smaller one's text.
InsertTieMirror ==
  (tOut.done /\ InsertTie) =>
    LET aFirst == IdLess(tA.ClientID, tB.ClientID)
        a1 == IF aFirst THEN tA
              ELSE [tA EXCEPT !.Position = @ + Len(tB.Content)]
        b1 == IF aFirst THEN [tB EXCEPT !.Position = @ + Len(tA.Content)]
              ELSE tB
    IN /\ tOut.ab = <<a1, b1>>
       /\ tOut.ba = <<b1, a1>>

\* Both orders have been transformed for a tie in which the first argument
\* has the larger ClientID and the two texts differ in length.
InsertTieMirrorWitness ==
  /\ tOut.done
  /\ InsertTie
  /\ IdLess(tB.ClientID, tA.ClientID)
  /\ Len(tA.Content) # Len(tB.Content)
  /\ tOut.ab[1].Position = tA.Position + Len(tB.Content)

\* C22: for two Deletes valid on the same content, Transform(b, a) is
\* Transform(a, b) with the pair swapped, also when the ranges overlap, one
\* contains the other, or both start at the same position.
DeleteDeleteMirror ==
  (tOut.done /\ tA.Type = OpDelete /\ tB.Type = OpDelete) =>
    tOut.ba = <<tOut.ab[2], tOut.ab[1]>>

\* ------------------------------------------- SpecPresence (selections)

\* The offsets a selection_change carries.
SelPositions == {0, 1}

NextPresence ==
  \/ HubBroadcast
  \/ \E c \in Clients, start \in SelPositions, end \in SelPositions :
       ReadSelectionChange(c, start, end)
  \/ \E c \in Clients, position \in Positions : ReadCursorPosition(c, position)
  \/ \E c \in Clients : WriterDeliver(c)
  \/ \E c \in Clients : WriterClose(c)

SpecPresence == InitSession /\ [][NextPresence]_vars

\* c has no selection entry in its document's presence state.
NoSelection(c) == \A e \in selections[DocOf(c)] : e.ClientID # c

\* Frame m is a selection_change of c with start = end.
ClearingFrame(m, c) ==
  m.type = "selection_change" /\ m.clientId = c /\ m.start = m.end

HandshakeOrder ==
  \A c \in Clients :
    /\ got[c] # <<>> => (got[c][1].type = "init" /\ got[c][1].clientId = c)
    /\ \A i \in 1..Len(got[c]) :
         got[c][i].type = "text_update" =>
           \E j \in 1..(i - 1) : \E k \in (j + 1)..(i - 1) :
             got[c][j].type = "init" /\ got[c][k].type = "document_state"

\* ------------------------------------------------ SpecSave (persistence)

\* Everything but the documents and the save variables.
liveVars == <<otVars, engineVars, clients, documentClients, broadcast, hubTask,
              send, sendClosed, cursors, selections, hws, conn, rd, panicked,
              buf, cver, got, rcvd, fanned, nMsgs, quota, sendCap, docOf,
              getDocVars, documentsActive>>

\* readPump reads a save_document: handleSaveDocument answers
\* save_confirmation (saved: true) on the client's own queue if there is room
\* and calls nothing else; a send on a closed queue panics.
ReadSaveDocument(c) ==
  /\ CanRead(c)
  /\ IF sendClosed[c]
       THEN /\ panicked' = TRUE
            /\ UNCHANGED <<send, got>>
       ELSE /\ UNCHANGED panicked
            /\ LET m == [Frame("save_confirmation", "", "")
                          EXCEPT !.seq = nMsgs + 1]
               IN IF Len(send[c]) < sendCap
                    THEN /\ send' = [send EXCEPT ![c] = Append(@, m)]
                         /\ got' = [got EXCEPT ![c] = Logged(@, m)]
                    ELSE UNCHANGED <<send, got>>
  /\ nMsgs' = nMsgs + 1
  /\ UNCHANGED <<otVars, engineVars, clients, documentClients, sendClosed,
                 broadcast, hubTask, documents, cursors, selections, hws, conn,
                 rd, buf, cver, fanned, rcvd, runVars>>

\* The documents a pass over s.documents finds dirty.
DirtyDocs == {d \in Docs : documents[d].exists /\ documents[d].dirty}

\* autoSave: a tick of the auto-save loop lists the dirty documents whose
\* last save is old enough; the ticks without such a document change nothing.
AutoSaveTick ==
  /\ ~panicked
  /\ sv["auto"].pc = "idle"
  /\ \E ids \in SUBSET DirtyDocs :
       /\ ids # {}
       /\ sv' = [sv EXCEPT !["auto"].pc = "list", !["auto"].ids = ids]
  /\ UNCHANGED <<liveVars, documents, useDb, db, lastSaved, documentsSaved,
                 down>>

\* SaveDocument, first half: a document that is missing or not dirty is
\* skipped; otherwise content and version are read under doc.mu.
SaveBegin(p) ==
  /\ ~panicked
  /\ sv[p].pc = "list"
  /\ \E id \in sv[p].ids :
       sv' = IF ~documents[id].exists \/ ~documents[id].dirty
               THEN [sv EXCEPT ![p].ids = @ \ {id}]
               ELSE [sv EXCEPT ![p].pc = IF useDb THEN "write" ELSE "clear",
                               ![p].id = id,
                               ![p].content = documents[id].Content,
                               ![p].version = documents[id].Version]
  /\ UNCHANGED <<liveVars, documents, useDb, db, lastSaved, documentsSaved,
                 down>>

\* SaveDocument: s.db.UpdateDocument(docID, content, version) succeeds.
SaveWrite(p) ==
  /\ ~panicked
  /\ sv[p].pc = "write"
  /\ db' = [db EXCEPT ![sv[p].id] = [has |-> TRUE, Content |-> sv[p].content,
                                     Version |-> sv[p].version]]
  /\ sv' = [sv EXCEPT ![p].pc = "clear"]
  /\ UNCHANGED <<liveVars, documents, useDb, lastSaved, documentsSaved, down>>

\* SaveDocument with the return on a failed update left out: the document is
\* marked clean and counted as saved all the same.
SaveWriteFailsClears(p) ==
  /\ ~panicked
  /\ sv[p].pc = "write"
  /\ documents' = [documents EXCEPT ![sv[p].id].dirty = FALSE]
  /\ lastSaved' = [lastSaved EXCEPT ![sv[p].id] = @ + 1]
  /\ documentsSaved' = documentsSaved + 1
  /\ sv' = [sv EXCEPT ![p].pc = "list", ![p].ids = @ \ {sv[p].id},
                      ![p].errs = @ \cup {sv[p].id}]
  /\ UNCHANGED <<liveVars, useDb, db, down>>

\* SaveDocument: s.db.UpdateDocument fails and SaveDocument returns the
\* error, which the caller logs (errs) before it goes on with its list.
SaveWriteFails(p) ==
  /\ ~panicked
  /\ sv[p].pc = "write"
  /\ sv' = [sv EXCEPT ![p].pc = "list", ![p].ids = @ \ {sv[p].id},
                      ![p].errs = @ \cup {sv[p].id}]
  /\ UNCHANGED <<liveVars, documents, useDb, db, lastSaved, documentsSaved,
                 down>>

\* SaveDocument, last part: doc.dirty = false, doc.lastSaved = time.Now(),
\* DocumentsSaved++.
SaveClear(p) ==
  /\ ~panicked
  /\ sv[p].pc = "clear"
  /\ documents' = [documents EXCEPT ![sv[p].id].dirty = FALSE]
  /\ lastSaved' = [lastSaved EXCEPT ![sv[p].id] = @ + 1]
  /\ documentsSaved' = documentsSaved + 1
  /\ sv' = [sv EXCEPT ![p].pc = "list", ![p].ids = @ \ {sv[p].id}]
  /\ UNCHANGED <<liveVars, useDb, db, down>>

\* autoSave has gone through its list and waits for the next tick.
AutoSaveDone ==
  /\ ~panicked
  /\ sv["auto"].pc = "list"
  /\ sv["auto"].ids = {}
  /\ sv' = [sv EXCEPT !["auto"].pc = "idle"]
  /\ UNCHANGED <<liveVars, documents, useDb, db, lastSaved, documentsSaved,
                 down>>

\* a1 and b9 edit d1 with a store behind the service; the auto-save loop
\* runs and the store may refuse an update.
InitSave ==
  /\ OTIdle
  /\ EngineIdle
  /\ SessionInitDb({"a1", "b9"}, [c \in Clients |-> "d1"], SendCap, MaxMsgs)

NextSave ==
  \/ HubBroadcast
  \/ \E c \in Clients, newContent \in Texts : ReadTextUpdate(c, newContent)
  \/ \E c \in Clients : WriteDocument(c)
  \/ \E c \in Clients : ReaderBroadcast(c)
  \/ \E c \in Clients : ReadSaveDocument(c)
  \/ \E c \in Clients : WriterDeliver(c)
  \/ \E c \in Clients : WriterClose(c)
  \/ AutoSaveTick
  \/ SaveBegin("auto")
  \/ SaveWrite("auto")
  \/ SaveWriteFails("auto")
  \/ SaveClear("auto")
  \/ AutoSaveDone

SpecSave == InitSave /\ [][NextSave]_vars

\* The store holds document d as it is in memory.
StoreCurrent(d) ==
  /\ db[d].has
  /\ db[d].Content = documents[d].Content
  /\ db[d].Version = documents[d].Version

\* C25: a save_confirmation frame is put on a client's queue only when the
\* store holds the current content and version of the client's document.
SaveConfirmedIsStored ==
  [][\A c \in Clients :
       (/\ Len(send'[c]) > Len(send[c])
        /\ send'[c][Len(send'[c])].type = "save_confirmation")
       => StoreCurrent(DocOf(c))']_vars

\* C26: a step on which the store refuses the update leaves the document
\* dirty and changes neither the documents, lastSaved, the saved counter nor
\* the store, and the saver goes on with its list; as long as no save of the
\* document has succeeded it stays dirty, so that the ticks keep listing it.
SaveFailureKeepsDirty ==
  [][/\ \A p \in Savers, d \in Docs :
          (d \in sv'[p].errs /\ d \notin sv[p].errs)
          => /\ documents' = documents
             /\ documents'[d].dirty
             /\ lastSaved' = lastSaved
             /\ documentsSaved' = documentsSaved
             /\ db' = db
             /\ sv'[p].pc = "list"
    /\ \A d \in Docs :
          (d \in sv'["auto"].errs /\ lastSaved'[d] = 0) => d \in DirtyDocs'
    ]_vars

\* A save of d1 has failed and a later tick is writing d1 again.
SaveFailureKeepsDirtyWitness ==
  /\ "d1" \in sv["auto"].errs
  /\ sv["auto"].pc = "write"
  /\ sv["auto"].id = "d1"
  /\ lastSaved["d1"] = 0
  /\ documentsSaved = 0

\* --------------------------------------------------- SpecShutdown (Shutdown)

\* Service.Shutdown, first call: Hub.shutdown closes the queue and the
\* transport of every client in h.clients and leaves h.clients as it is.
ShutdownHub ==
  /\ ~panicked
  /\ down = "up"
  /\ IF \E c \in clients : sendClosed[c]
       THEN /\ panicked' = TRUE
            /\ UNCHANGED <<sendClosed, conn, down>>
       ELSE /\ sendClosed' = [c \in Clients |-> sendClosed[c] \/ c \in clients]
            /\ conn' = [c \in Clients |->
                          IF c \in clients THEN "closed" ELSE conn[c]]
            /\ down' = "hub"
            /\ UNCHANGED panicked
  /\ UNCHANGED <<otVars, engineVars, clients, documentClients, send, broadcast,
                 hubTask, documents, cursors, selections, hws, rd, buf, cver,
                 got, rcvd, fanned, nMsgs, quota, sendCap, docOf, getDocVars,
                 useDb, db, lastSaved, documentsSaved, sv, documentsActive>>

\* savePendingDocuments, first loop: the ids of the dirty documents.
ShutdownCollect ==
  /\ ~panicked
  /\ down = "hub"
  /\ sv' = [sv EXCEPT !["shutdown"].pc = "list", !["shutdown"].ids = DirtyDocs]
  /\ down' = "saving"
  /\ UNCHANGED <<liveVars, documents, useDb, db, lastSaved, documentsSaved>>

\* savePendingDocuments has saved every id of its list, the store is closed
\* and Shutdown returns.
ShutdownReturn ==
  /\ ~panicked
  /\ down = "saving"
  /\ sv["shutdown"].pc = "list"
  /\ sv["shutdown"].ids = {}
  /\ sv' = [sv EXCEPT !["shutdown"].pc = "idle"]
  /\ down' = "returned"
  /\ UNCHANGED <<liveVars, documents, useDb, db, lastSaved, documentsSaved>>

\* a1 and b9 edit d1 with a store that accepts every update, and Shutdown
\* is called at some point.
InitShutdown ==
  /\ OTIdle
  /\ EngineIdle
  /\ SessionInitDb({"a1", "b9"}, [c \in Clients |-> "d1"], SendCap, MaxMsgs)

NextShutdown ==
  \/ HubBroadcast
  \/ \E c \in Clients, newContent \in Texts : ReadTextUpdate(c, newContent)
  \/ \E c \in Clients : WriteDocument(c)
  \/ \E c \in Clients : ReaderBroadcast(c)
  \/ \E c \in Clients : WriterDeliver(c)
  \/ \E c \in Clients : WriterClose(c)
  \/ \E c \in Clients : HubUnregister(c)
  \/ ShutdownHub
  \/ ShutdownCollect
  \/ SaveBegin("shutdown")
  \/ SaveWrite("shutdown")
  \/ SaveClear("shutdown")
  \/ ShutdownReturn

SpecShutdown == InitShutdown /\ [][NextShutdown]_vars

\* C27: on the step on which Shutdown returns no document is dirty and the
\* store holds the content and version of every document.
ShutdownFlushesAll ==
  [][(down' = "returned" /\ down # "returned")
     => \A d \in Docs :
          documents'[d].exists => (~documents'[d].dirty /\ StoreCurrent(d)')
    ]_vars

\* ------------------------------------------- SpecFlush (last one out saves)

\* a1 and b9 edit d1 with a store that accepts every update; a1's browser may
\* go away and b9 may be too slow for its queue.
InitFlush ==
  /\ OTIdle
  /\ EngineIdle
  /\ SessionInitDb({"a1", "b9"}, [c \in Clients |-> "d1"], SendCap, MaxMsgs)

SpecFlush == InitFlush /\ [][NextDetach]_vars

\* Every connection that was made has been through its unregistration.
AllGone == \A c \in Clients : conn[c] # "none" => rd[c].pc = "gone"

\* C28: on the step that unregisters the last connection of a document, the
\* document is written to the store and its dirty flag is cleared.
LastOneOutSaves ==
  [][(AllGone' /\ ~AllGone /\ ~panicked')
     => \A d \in Docs :
          documents'[d].exists => (~documents'[d].dirty /\ StoreCurrent(d)')
    ]_vars

\* ------------------------------------------ SpecProtocol (protocol errors)

\* readPump reads bytes that json.Unmarshal rejects, or a message whose type
\* is none of processMessage's cases: both end in sendError, which puts an
\* error frame on the client's own queue if there is room; a send on a
\* closed queue panics.
ReadProtocolError(c) ==
  /\ CanRead(c)
  /\ IF sendClosed[c]
       THEN /\ panicked' = TRUE
            /\ UNCHANGED <<send, got>>
       ELSE /\ UNCHANGED panicked
            /\ LET m == [Frame("error", "", "") EXCEPT !.seq = nMsgs + 1]
               IN IF Len(send[c]) < sendCap
                    THEN /\ send' = [send EXCEPT ![c] = Append(@, m)]
                         /\ got' = [got EXCEPT ![c] = Logged(@, m)]
                    ELSE UNCHANGED <<send, got>>
  /\ nMsgs' = nMsgs + 1
  /\ UNCHANGED <<otVars, engineVars, clients, documentClients, sendClosed,
                 broadcast, hubTask, documents, cursors, selections, hws, conn,
                 rd, buf, cver, fanned, rcvd, runVars>>

NextProtocol ==
  \/ NextDetach
  \/ \E c \in Clients : ReadProtocolError(c)

SpecProtocol == InitSession /\ [][NextProtocol]_vars

\* C29: a step that reads a malformed or unknown frame from c puts an error
\* frame on c's queue and on no other queue, hands nothing to the hub, and
\* leaves the documents, cursors, selections and the server as they were.
ProtocolErrorLocal ==
  [][\A c \in Clients :
       ReadProtocolError(c) =>
         /\ ~panicked'
         /\ Len(send'[c]) = Len(send[c]) + 1
         /\ send'[c][Len(send'[c])].type = "error"
         /\ \A p \in Clients \ {c} : send'[p] = send[p]
         /\ broadcast' = broadcast
         /\ documents' = documents
         /\ cursors' = cursors
         /\ selections' = selections]_vars

\* ---------------------------------------------- SpecStall (blocking sends)

\* readPump reads a request_document: handleDocumentRequest calls
\* sendDocumentState, which puts the client in ActiveClients and marshals
\* the document's content and version.
ReadRequestDocument(c) ==
  /\ CanRead(c)
  /\ LET docs == GetDocument(documents, DocOf(c))
         doc  == docs[DocOf(c)]
     IN /\ documents' = [docs EXCEPT ![DocOf(c)].ActiveClients = @ \cup {c}]
        /\ rd' = [rd EXCEPT ![c] =
                    [pc |-> "request",
                     frame |-> [Frame("document_state", "", DocOf(c))
                                  EXCEPT !.content = doc.Content,
                                         !.version = doc.Version,
                                         !.seq = nMsgs + 1]]]
  /\ nMsgs' = nMsgs + 1
  /\ documentsActive' = documentsActive + Created(documents, DocOf(c))
  /\ UNCHANGED <<otVars, engineVars, hubVars, broadcast, hubTask, cursors,
                 selections, hws, conn, buf, cver, fanned, rcvd, stillVars>>

\* sendDocumentState for a request_document: client.send <- data.
SendRequested(c) ==
  /\ ~panicked
  /\ rd[c].pc = "request"
  /\ BlockingSend(c, rd[c].frame)
  /\ rd' = [rd EXCEPT ![c] = [pc |-> "idle"]]
  /\ UNCHANGED <<otVars, engineVars, clients, documentClients, sendClosed,
                 broadcast, hubTask, documents, cursors, selections, hws, conn,
                 buf, cver, fanned, nMsgs, rcvd, runVars>>

\* a1 and b9 are attached to d1.
InitStall ==
  /\ OTIdle
  /\ EngineIdle
  /\ SessionInitOn({"a1", "b9"}, [c \in Clients |-> "d1"], SendCap, MaxMsgs)

NextStall ==
  \/ NextDetach
  \/ \E c \in Clients : ReadRequestDocument(c)
  \/ \E c \in Clients : SendRequested(c)

\* A step of one of the server's goroutines: the hub loop, the handler a
\* readPump is in, or a writePump.  What the browsers send and when they go
\* away is not among them.
ServerStep ==
  \/ HubBroadcast
  \/ \E c \in Clients :
       \/ HubUnregister(c)
       \/ WriteDocument(c)
       \/ ReaderBroadcast(c)
       \/ SendRequested(c)
       \/ WriterDeliver(c)
       \/ WriterClose(c)

\* The scheduler does not stop while a goroutine of the server can run.
FairStall == WF_vars(ServerStep)

SpecStall == InitStall /\ [][NextStall]_vars /\ FairStall

\* C30: a connection whose transport has failed is eventually unregistered
\* from the hub (or the server has died of a panic).
FailedTransportUnregistered ==
  \A c \in Clients :
    (conn[c] \in {"closed", "hungup"}) ~> (rd[c].pc = "gone" \/ panicked)

\* ------------------------------------------ SpecQuiet (presence and typing)

\* readPump reads a ping: processMessage returns at once.
ReadPing(c) ==
  /\ CanRead(c)
  /\ nMsgs' = nMsgs + 1
  /\ UNCHANGED <<otVars, engineVars, hubVars, broadcast, hubTask, documents,
                 cursors, selections, hws, conn, rd, buf, cver, fanned, rcvd,
                 runVars>>

NextQuiet ==
  \/ NextSession
  \/ \E c \in Clients : ReadPing(c)

InitQuiet == OTIdle /\ EngineIdle /\ SessionInit({"a1", "b9"})

SpecQuiet == InitQuiet /\ [][NextQuiet]_vars

\* The frame types that carry presence or typing.
QuietTypes ==
  {"typing_start", "typing_stop", "cursor_position", "selection_change"}

\* Content, version and dirty flag of every document there is, and the
\* engines with their histories, are the same before and after the step.
DocumentsUntouched ==
  /\ otm' = otm
  /\ \A d \in Docs :
       documents[d].exists =>
       /\ documents'[d].exists
       /\ documents'[d].Content = documents[d].Content
       /\ documents'[d].Version = documents[d].Version
       /\ documents'[d].dirty = documents[d].dirty

\* C31: reading a typing_start, typing_stop, cursor_position,
\* selection_change or ping, and fanning such a frame out, changes no
\* document's content, version, history or dirty flag; the typing frames and
\* ping change no cursor or selection entry either.
PresenceLeavesDocuments ==
  [][\A c \in Clients :
       /\ (\E t \in {"typing_start", "typing_stop"} : ReadTyping(c, t)) =>
            (DocumentsUntouched /\ cursors' = cursors /\ selections' = selections)
       /\ ReadPing(c) =>
            (DocumentsUntouched /\ cursors' = cursors /\ selections' = selections
             /\ broadcast' = broadcast /\ send' = send)
       /\ (\E x \in Positions : ReadCursorPosition(c, x)) => DocumentsUntouched
       /\ (\E x \in Positions, y \in Positions : ReadSelectionChange(c, x, y))
            => DocumentsUntouched
       /\ (HubBroadcast /\ Head(broadcast).type \in QuietTypes) =>
            (DocumentsUntouched /\ cursors' = cursors /\ selections' = selections)
    ]_vars

\* A peer has been handed a typing frame, a cursor entry has been stored
\* and the document is as it was created.
PresenceLeavesDocumentsWitness ==
  /\ \E c \in Clients : \E i \in 1..Len(got[c]) :
       got[c][i].type \in {"typing_start", "typing_stop"}
  /\ cursors["d1"] # {}
  /\ documents["d1"].Version = 1

\* --------------------------------------------- insert inside a delete

\* tA is an Insert whose position lies strictly inside the Delete tB.
InsertInsideDelete ==
  /\ tA.Type = OpInsert
  /\ tB.Type = OpDelete
  /\ tB.Position < tA.Position
  /\ tA.Position < tB.Position + tB.Length

\* Content c holds the text of tA at the start position of tB.
HoldsInsertAtCollapse(c) ==
  /\ Len(c) >= tB.Position + Len(tA.Content)
  /\ SubSeq(c, tB.Position + 1, tB.Position + Len(tA.Content)) = tA.Content

\* C32: for an Insert strictly inside the range of a concurrent Delete,
\* after Transform both application orders succeed and the final content
\* holds the inserted text at the delete's start position.
InsertInsideDeleteKept ==
  (tOut.done /\ InsertInsideDelete) =>
    /\ tOut.left.err = "nil"
    /\ tOut.right.err = "nil"
    /\ HoldsInsertAtCollapse(tOut.left.doc.Content)
    /\ HoldsInsertAtCollapse(tOut.right.doc.Content)

\* C33: every selection entry stored for a document has Start <= End.
SelectionOrdered ==
  \A d \in Docs : \A e \in selections[d] : e.Start <= e.End

\* ------------------------------------------------ SpecClosed (closed queues)

\* A session with departures, evictions, every reader-side reply and a call
\* of Hub.shutdown.
NextClosed ==
  \/ NextStall
  \/ \E c \in Clients : ReadProtocolError(c)
  \/ \E c \in Clients : ReadSaveDocument(c)
  \/ ShutdownHub

SpecClosed == InitStall /\ [][NextClosed]_vars

\* The clients handleBroadcast sends frame m to.
BroadcastTargets(m) ==
  IF m.type \in {"text_update", "cursor_position", "selection",
                 "typing_start", "typing_stop"}
     \/ m.documentId # ""
    THEN documentClients[m.documentId] \ {m.clientId}
    ELSE {}

\* C34: no step sends a frame on a queue that has been closed: neither a
\* reader replying with error, save_confirmation or document_state, nor the
\* hub fanning a frame out.
NoSendOnClosed ==
  [][/\ \A c \in Clients :
          sendClosed[c] =>
            ~(ReadProtocolError(c) \/ ReadSaveDocument(c) \/ SendRequested(c))
     /\ HubBroadcast =>
          \A c \in BroadcastTargets(Head(broadcast)) : ~sendClosed[c]
    ]_vars

\* C35: no step closes a queue that is closed already: neither
\* handleUnregister for a client still in h.clients nor Hub.shutdown.
ClosedAtMostOnce ==
  [][/\ \A c \in Clients :
          HubUnregister(c) => ~(c \in clients /\ sendClosed[c])
     /\ ShutdownHub => \A c \in clients : ~sendClosed[c]
    ]_vars

\* ------------------------------------------- SpecLoaded (a stored document)

\* Content of the stored document.
LoadedContent == <<"a">>

\* a1 and b9 are attached to d1, which GetDocument loaded from the store:
\* content and version are the row's, the document is clean and its
\* OTManager is new.
InitLoaded ==
  /\ OTIdle
  /\ EngineIdle
  /\ SessionAt({"a1", "b9"}, [c \in Clients |-> "d1"], SendCap, MaxMsgs,
               LoadedContent, LoadedVersion, FALSE)
  /\ useDb = TRUE
  /\ db = [d \in Docs |->
             IF d = "d1"
               THEN [has |-> TRUE, Content |-> LoadedContent,
                     Version |-> LoadedVersion]
               ELSE NoRow]
  /\ SaveIdle

NextLoaded ==
  \/ NextSession
  \/ \E c \in Clients : ReadRequestDocument(c)
  \/ \E c \in Clients : SendRequested(c)

SpecLoaded == InitLoaded /\ [][NextLoaded]_vars

\* The versions of the document_state and text_update entries of a log do
\* not go down.
VersionsAscend(q) ==
  \A i \in 1..Len(q) : \A j \in i..Len(q) :
    (/\ q[i].type \in {"document_state", "text_update"}
     /\ q[j].type \in {"document_state", "text_update"})
    => q[i].version <= q[j].version

\* C36: the version of a document never goes down, and the versions of the
\* document_state and text_update frames placed on a client's queue never
\* go down either.
VersionNeverDecreases ==
  [][/\ \A d \in Docs :
          documents[d].exists => documents'[d].Version >= documents[d].Version
     /\ \A c \in Clients : VersionsAscend(got'[c])
    ]_vars

\* -------------------------------------------- the engine never refuses

\* C37: lastContent is the engine's Content between calls, and every call
\* of ProcessTextUpdate made so far handed Apply an operation in range for
\* the content it met and returned no error.
ProcessNeverFails ==
  /\ otm[EngineDoc].lastContent = otm[EngineDoc].document.Content
  /\ \A i \in 1..Len(calls) :
       /\ ~OutOfRange(calls[i].op, Len(calls[i].before.Content))
       /\ ~OutOfRange(calls[i].applied, Len(calls[i].before.Content))
       /\ calls[i].err = "nil"

\* A client behind the engine has had a Delete applied after another
\* client's Insert.
ProcessNeverFailsWitness ==
  /\ Len(calls) = 2
  /\ calls[1].applied.Type = OpInsert
  /\ calls[2].applied.Type = OpDelete
  /\ calls[2].clientID # calls[1].clientID
  /\ calls[2].clientVersion < calls[2].before.Version
  /\ calls[2].err = "nil"

\* C38: both operations Transform returns have Position >= 0 and, when they
\* are Deletes, Length >= 0.
TransformWellFormed ==
  tOut.done =>
    \A op \in {tOut.a1, tOut.b1} :
      /\ op.Position >= 0
      /\ op.Type = OpDelete => op.Length >= 0

\* C39: with a store, a document whose dirty flag is down is in the store
\* with its current content and version.
CleanMeansPersisted ==
  useDb =>
    \A d \in Docs :
      (documents[d].exists /\ ~documents[d].dirty) => StoreCurrent(d)

\* ---------------------------------------------------------------------------
\* Connects and disconnects against the documents_active counter.  a1 is
\* attached to d1, the other connections arrive later, each for the document
\* its URL names; any connection whose handshake is over may go away.

Hangup(c) ==
  /\ ~panicked
  /\ conn[c] = "open"
  /\ hws[c].pc = "done"
  /\ conn' = [conn EXCEPT ![c] = "hungup"]
  /\ UNCHANGED <<otVars, engineVars, hubVars, broadcast, hubTask, documents,
                 cursors, selections, hws, rd, buf, cver, fanned, nMsgs, rcvd,
                 runVars>>

InitActive ==
  /\ OTIdle
  /\ EngineIdle
  /\ \E f \in [Clients -> Docs] :
       /\ f["a1"] = "d1"
       /\ SessionInitOn({"a1"}, f, DetachCap, MaxDetachMsgs)

NextActive ==
  \/ \E c \in Clients : HubAccept(c)
  \/ HubRegister
  \/ \E c \in Clients : SendInit(c)
  \/ \E c \in Clients : AttachDocument(c)
  \/ \E c \in Clients : SendDocumentState(c)
  \/ \E c \in Clients, position \in Positions : ReadCursorPosition(c, position)
  \/ HubBroadcast
  \/ \E c \in Clients : WriterDeliver(c)
  \/ \E c \in Clients : WriterClose(c)
  \/ \E c \in Clients : Hangup(c)
  \/ \E c \in Clients : HubUnregister(c)

SpecActive == InitActive /\ [][NextActive]_vars

Settled ==
  /\ ~panicked
  /\ hubTask.op = "idle"
  /\ \A c \in Clients : hws[c].pc \in {"new", "done"}

ActiveDocs ==
  {d \in Docs : documents[d].exists /\ documents[d].ActiveClients # {}}

\* C40: whenever no handshake and no hub task is in progress, the
\* documents_active counter is not negative and equals the number of
\* documents that have at least one active client, also after a client has
\* joined a document that had become empty.
ActiveCounterExact ==
  Settled => /\ documentsActive >= 0
             /\ documentsActive = Cardinality(ActiveDocs)

====
